---- MODULE Spec2Model ----
(***************************************************************************)
(* A model of the mastodon-openapi scripts: the validator                  *)
(* (validate_openapi.py) and the three generators (generate_openapi.py,    *)
(* generate_sample_openapi.py, generate_comprehensive_openapi.py).         *)
(*                                                                         *)
(* Python strings are TLA+ strings; the operations that look inside a      *)
(* string (startswith, endswith, in, replace, split, lower, upper,         *)
(* Path.suffix, Path.stem) work on it as the sequence of its characters.   *)
(* Python objects that can be of several types (the values of a parsed     *)
(* document, Optional fields) are tagged records [t |-> type, v |-> value].*)
(* A dict is the sequence of its items in insertion order.                 *)
(***************************************************************************)
EXTENDS Integers, Sequences, FiniteSets, TLC

VARIABLES
    fs,       \* the working directory: file name -> file
    vpc,      \* validator: position of main, or of a direct caller
    vi,       \* validator: main's place in its list of files
    vcalls,   \* validator: the calls of validate_openapi_spec made so far
    gen,      \* generators: one record per run of a generator's main
    net       \* scraper: what the GitHub API answers, path -> answer

vars == <<fs, vpc, vi, vcalls, gen, net>>

(***************************************************************************)
(* Python str and its methods. A string is the sequence of its characters. *)
(***************************************************************************)
\* s[i - 1]: the character at (1-based) position i
CharAt(s, i) == SubSeq(s, i, i)

\* s.find(sub, i - 1) + 1: the first position of sub in s from position i on,
\* 0 when there is none
Find(s, sub, i) ==
    LET at == {j \in i..(Len(s) - Len(sub) + 1) : SubSeq(s, j, j + Len(sub) - 1) = sub}
    IN  IF at = {} THEN 0 ELSE CHOOSE j \in at : \A k \in at : j <= k

\* s.rfind(sub, 0, i) + 1: the last position of sub in s at or before i
RFind(s, sub, i) ==
    LET at == {j \in 1..i : /\ j + Len(sub) - 1 <= Len(s)
                            /\ SubSeq(s, j, j + Len(sub) - 1) = sub}
    IN  IF at = {} THEN 0 ELSE CHOOSE j \in at : \A k \in at : j >= k

StartsWith(s, prefix) ==
    Len(prefix) <= Len(s) /\ SubSeq(s, 1, Len(prefix)) = prefix

EndsWith(s, suffix) ==
    Len(suffix) <= Len(s) /\ SubSeq(s, Len(s) - Len(suffix) + 1, Len(s)) = suffix

\* sub in s
Contains(s, sub) == Find(s, sub, 1) # 0

\* s.replace(old, new), old not empty: left to right, non-overlapping
RECURSIVE Replace(_, _, _)
Replace(s, old, new) ==
    LET i == Find(s, old, 1)
    IN  IF i = 0 THEN s
        ELSE SubSeq(s, 1, i - 1) \o new
             \o Replace(SubSeq(s, i + Len(old), Len(s)), old, new)

\* s.split(sep, maxsplit), sep not empty; maxsplit -1 for no limit
RECURSIVE SplitMax(_, _, _)
SplitMax(s, sep, maxsplit) ==
    LET i == Find(s, sep, 1)
    IN  IF i = 0 \/ maxsplit = 0 THEN <<s>>
        ELSE <<SubSeq(s, 1, i - 1)>>
             \o SplitMax(SubSeq(s, i + Len(sep), Len(s)), sep,
                         IF maxsplit < 0 THEN maxsplit ELSE maxsplit - 1)

Split(s, sep) == SplitMax(s, sep, -1)

UpperLetters == "ABCDEFGHIJKLMNOPQRSTUVWXYZ"

LowerLetters == "abcdefghijklmnopqrstuvwxyz"

\* "".join(strs)
RECURSIVE Join(_)
Join(strs) ==
    CASE Len(strs) = 0 -> ""
      [] Len(strs) = 1 -> strs[1]
      [] OTHER -> Join(SubSeq(strs, 1, Len(strs) \div 2))
                  \o Join(SubSeq(strs, Len(strs) \div 2 + 1, Len(strs)))

\* s with every letter of one alphabet replaced by the letter of the other
Translate(s, from, to) ==
    LET table == [c \in {CharAt(from, i) : i \in 1..Len(from)} |->
                    CharAt(to, Find(from, c, 1))]
    IN  Join([n \in 1..Len(s) |->
                IF CharAt(s, n) \in DOMAIN table THEN table[CharAt(s, n)]
                ELSE CharAt(s, n)])

Lower(s) == Translate(s, UpperLetters, LowerLetters)

Upper(s) == Translate(s, LowerLetters, UpperLetters)

\* pathlib: Path(p).name, the final component
PathName(p) == SubSeq(p, RFind(p, "/", Len(p)) + 1, Len(p))

\* pathlib: the dot that starts the suffix of a name (0: no suffix). A leading
\* dot and a trailing dot start no suffix.
SuffixDot(name) ==
    LET i == RFind(name, ".", Len(name))
    IN  IF 1 < i /\ i < Len(name) THEN i ELSE 0

\* pathlib: Path(p).suffix
Suffix(p) ==
    LET name == PathName(p)
        i    == SuffixDot(name)
    IN  IF i = 0 THEN "" ELSE SubSeq(name, i, Len(name))

\* pathlib: Path(p).stem
Stem(p) ==
    LET name == PathName(p)
        i    == SuffixDot(name)
    IN  IF i = 0 THEN name ELSE SubSeq(name, 1, i - 1)

(***************************************************************************)
(* Python objects. An int or a float carries its decimal text: the code    *)
(* never computes with the numbers of a document.                          *)
(***************************************************************************)
PyStr(s) == [t |-> "str", v |-> s]

PyInt(text) == [t |-> "int", v |-> text]

PyFloat(text) == [t |-> "float", v |-> text]

PyBool(b) == [t |-> "bool", v |-> b]

PyNone == [t |-> "none", v |-> "None"]

PyList(items) == [t |-> "list", v |-> items]

\* items: the sequence of [k |-> key, v |-> value] in insertion order
PyDict(items) == [t |-> "dict", v |-> items]

Item(key, value) == [k |-> key, v |-> value]

\* a dict literal whose keys are strings
Entry(name, value) == Item(PyStr(name), value)

EmptyDict == PyDict(<<>>)

DictKeys(d) == [i \in 1..Len(d.v) |-> d.v[i].k]

DictValues(d) == [i \in 1..Len(d.v) |-> d.v[i].v]

HasKey(d, key) == \E i \in 1..Len(d.v) : d.v[i].k = key

\* d[key], for a key of d
GetItem(d, key) == d.v[CHOOSE i \in 1..Len(d.v) : d.v[i].k = key].v

\* d.get(key, default)
GetOr(d, key, default) == IF HasKey(d, key) THEN GetItem(d, key) ELSE default

\* d[key] = value: a new key goes last, a key of d keeps its place
SetItem(d, key, value) ==
    IF HasKey(d, key)
    THEN PyDict([i \in 1..Len(d.v) |->
                    IF d.v[i].k = key THEN Item(key, value) ELSE d.v[i]])
    ELSE PyDict(Append(d.v, Item(key, value)))

\* d after d[keys[i]] = values[i] for i = 1, 2, ... in turn: a repeated key
\* keeps its first place and gets its last value
Assign(d, keys, values) ==
    LET ks    == DictKeys(d) \o keys
        vs    == DictValues(d) \o values
        first == {i \in 1..Len(ks) : \A j \in 1..(i - 1) : ks[j] # ks[i]}
        nth(r) == CHOOSE i \in first : Cardinality({j \in first : j < i}) = r - 1
        last(k) == CHOOSE i \in 1..Len(ks) :
                        ks[i] = k /\ \A j \in (i + 1)..Len(ks) : ks[j] # k
    IN  PyDict([r \in 1..Cardinality(first) |-> Item(ks[nth(r)], vs[last(ks[nth(r)])])])

\* bool(x)
Truthy(x) ==
    CASE x.t = "none" -> FALSE
      [] x.t = "bool" -> x.v
      [] x.t = "str" -> x.v # ""
      [] x.t \in {"list", "dict"} -> Len(x.v) > 0
      [] x.t \in {"int", "float"} -> x.v \notin {"0", "0.0"}

(***************************************************************************)
(* Serialised documents. A file body is a syntax and a node tree; a scalar *)
(* node is plain or quoted, and a plain scalar is read back by the         *)
(* loader's implicit resolver.                                             *)
(***************************************************************************)
Plain(text) == [t |-> "plain", v |-> text]

Quoted(text) == [t |-> "quoted", v |-> text]

MapNode(items) == [t |-> "map", v |-> items]

SeqNode(items) == [t |-> "seq", v |-> items]

Digits == {"0", "1", "2", "3", "4", "5", "6", "7", "8", "9"}

AllDigits(s) == Len(s) > 0 /\ \A i \in 1..Len(s) : CharAt(s, i) \in Digits

\* the resolver's decimal and octal int patterns
IsIntText(s) ==
    /\ AllDigits(s)
    /\ \/ Head(s) # "0"
       \/ Len(s) = 1
       \/ \A i \in 1..Len(s) : CharAt(s, i) \notin {"8", "9"}

\* the resolver's float pattern digits "." digits
IsFloatText(s) ==
    LET dot == Find(s, ".", 1)
    IN  /\ dot > 1
        /\ AllDigits(SubSeq(s, 1, dot - 1))
        /\ \/ dot = Len(s)
           \/ AllDigits(SubSeq(s, dot + 1, Len(s)))

NullTexts == {"", "~", "null", "Null", "NULL"}

TrueTexts == {"true", "True", "TRUE", "yes", "Yes", "YES", "on", "On", "ON"}

FalseTexts == {"false", "False", "FALSE", "no", "No", "NO", "off", "Off", "OFF"}

\* The type the resolver gives a plain scalar; it picks the patterns to try by
\* the first character.
ImplicitTag(text) ==
    CASE text \in NullTexts -> "none"
      [] text \in TrueTexts \cup FalseTexts -> "bool"
      [] Head(text) \notin Digits -> "str"
      [] IsIntText(text) -> "int"
      [] IsFloatText(text) -> "float"
      [] OTHER -> "str"

\* a representer that writes every str plain
ScalarNodePlain(x) ==
    CASE x.t \in {"str", "int", "float"} -> Plain(x.v)
      [] x.t = "bool" -> Plain(IF x.v THEN "true" ELSE "false")
      [] x.t = "none" -> Plain("null")

\* yaml representer and emitter: a str is written plain unless it would be read
\* back as something else
ScalarNode(x) ==
    CASE x.t = "str" -> IF ImplicitTag(x.v) = "str" THEN Plain(x.v) ELSE Quoted(x.v)
      [] x.t \in {"int", "float"} -> Plain(x.v)
      [] x.t = "bool" -> Plain(IF x.v THEN "true" ELSE "false")
      [] x.t = "none" -> Plain("null")

\* yaml.dump(x, sort_keys=False): keys in insertion order
RECURSIVE YamlNode(_)
YamlNode(x) ==
    CASE x.t = "dict" ->
            MapNode([i \in 1..Len(x.v) |->
                        Item(YamlNode(x.v[i].k), YamlNode(x.v[i].v))])
      [] x.t = "list" -> SeqNode([i \in 1..Len(x.v) |-> YamlNode(x.v[i])])
      [] OTHER -> ScalarNode(x)

\* json.dump: a str is always quoted; a key that is not a str is written as
\* the string of its JSON text
JsonKeyNode(k) ==
    IF k.t = "str" THEN Quoted(k.v) ELSE Quoted(ScalarNode(k).v)

RECURSIVE JsonNode(_)
JsonNode(x) ==
    CASE x.t = "dict" ->
            MapNode([i \in 1..Len(x.v) |->
                        Item(JsonKeyNode(x.v[i].k), JsonNode(x.v[i].v))])
      [] x.t = "list" -> SeqNode([i \in 1..Len(x.v) |-> JsonNode(x.v[i])])
      [] x.t = "str" -> Quoted(x.v)
      [] OTHER -> ScalarNode(x)

\* the constructor of a scalar node
ConstructScalar(node) ==
    IF node.t = "quoted" THEN PyStr(node.v)
    ELSE CASE ImplicitTag(node.v) = "none" -> PyNone
           [] ImplicitTag(node.v) = "bool" -> PyBool(node.v \in TrueTexts)
           [] ImplicitTag(node.v) = "int" -> PyInt(node.v)
           [] ImplicitTag(node.v) = "float" -> PyFloat(node.v)
           [] OTHER -> PyStr(node.v)

\* the constructor of a mapping: items in order, a repeated key keeps its
\* first place and its last value
DictOf(items) ==
    Assign(EmptyDict, [i \in 1..Len(items) |-> items[i].k],
                      [i \in 1..Len(items) |-> items[i].v])

\* yaml.safe_load and json.load of a well-formed body
RECURSIVE Construct(_)
Construct(node) ==
    CASE node.t = "map" ->
            DictOf([i \in 1..Len(node.v) |->
                        Item(Construct(node.v[i].k), Construct(node.v[i].v))])
      [] node.t = "seq" -> PyList([i \in 1..Len(node.v) |-> Construct(node.v[i])])
      [] OTHER -> ConstructScalar(node)

\* a file body
Body(syntax, node) == [syntax |-> syntax, node |-> node]

\* the characters of codes 32 to 126
Backtick == SubSeq("`'", 1, 1)

Ascii ==
    " !\"#$%&'()*+,-./0123456789:;<=>?@ABCDEFGHIJKLMNOPQRSTUVWXYZ[\\]^_"
    \o Backtick \o "abcdefghijklmnopqrstuvwxyz{|}~"

\* a < b for str: by the first character that differs, a prefix first
StrLess(a, b) ==
    LET n      == IF Len(a) < Len(b) THEN Len(a) ELSE Len(b)
        differ == {i \in 1..n : CharAt(a, i) # CharAt(b, i)}
        first  == CHOOSE i \in differ : \A j \in differ : i <= j
    IN  IF differ = {} THEN Len(a) < Len(b)
        ELSE Find(Ascii, CharAt(a, first), 1) < Find(Ascii, CharAt(b, first), 1)

\* the items of a dict of str keys in the order of the keys
Placed(items, rank) ==
    [p \in 1..Len(items) |-> items[CHOOSE i \in 1..Len(items) : rank[i] = p]]

SortedItems(items) ==
    Placed(items, SubSeq([i \in 1..Len(items) |->
                            1 + Cardinality({j \in 1..Len(items) :
                                                StrLess(items[j].k.v, items[i].k.v)})],
                         1, Len(items)))

\* yaml.dump(x) with the default sort_keys=True
RECURSIVE YamlNodeSorted(_)
YamlMapSorted(items) ==
    MapNode([i \in 1..Len(items) |->
                Item(YamlNodeSorted(items[i].k), YamlNodeSorted(items[i].v))])

YamlNodeSorted(x) ==
    CASE x.t = "dict" -> YamlMapSorted(SubSeq(SortedItems(x.v), 1, Len(x.v)))
      [] x.t = "list" -> SeqNode([i \in 1..Len(x.v) |-> YamlNodeSorted(x.v[i])])
      [] OTHER -> ScalarNode(x)

YamlDumpSorted(x) == Body("yaml", YamlNodeSorted(x))

YamlDump(x) == Body("yaml", YamlNode(x))

JsonDump(x) == Body("json", JsonNode(x))

\* a body that is neither YAML nor JSON
Garbage == Body("bad", Plain(""))

(***************************************************************************)
(* Python operations that may raise: [exc |-> "" or the exception's class, *)
(* val |-> the value].                                                     *)
(***************************************************************************)
Ok(value) == [exc |-> "", val |-> value]

Raise(class) == [exc |-> class, val |-> PyNone]

\* name in x
PyIn(name, x) ==
    CASE x.t = "dict" -> Ok(HasKey(x, PyStr(name)))
      [] x.t = "list" -> Ok(\E i \in 1..Len(x.v) : x.v[i] = PyStr(name))
      [] x.t = "str" -> Ok(Contains(x.v, name))
      [] OTHER -> Raise("TypeError")

\* x[name]
PySubscript(x, name) ==
    CASE x.t = "dict" ->
            IF HasKey(x, PyStr(name)) THEN Ok(GetItem(x, PyStr(name)))
            ELSE Raise("KeyError")
      [] OTHER -> Raise("TypeError")

\* x.get(name, {})
PyGet(x, name) ==
    IF x.t = "dict" THEN Ok(GetOr(x, PyStr(name), EmptyDict))
    ELSE Raise("AttributeError")

\* x.startswith(prefix)
PyStartsWith(x, prefix) ==
    IF x.t = "str" THEN Ok(StartsWith(x.v, prefix)) ELSE Raise("AttributeError")

\* len(x)
PyLen(x) ==
    CASE x.t \in {"dict", "list"} -> Ok(Len(x.v))
      [] x.t = "str" -> Ok(Len(x.v))
      [] OTHER -> Raise("TypeError")

\* x.values()
PyValues(x) ==
    IF x.t = "dict" THEN Ok(DictValues(x)) ELSE Raise("AttributeError")

\* set.update(x): the elements x adds to a set
PyElements(x) ==
    CASE x.t = "list" ->
            IF \E i \in 1..Len(x.v) : x.v[i].t \in {"list", "dict"}
            THEN Raise("TypeError")
            ELSE Ok({x.v[i] : i \in 1..Len(x.v)})
      [] x.t = "dict" -> Ok({x.v[i].k : i \in 1..Len(x.v)})
      [] x.t = "str" -> Ok({PyStr(CharAt(x.v, i)) : i \in 1..Len(x.v)})
      [] OTHER -> Raise("TypeError")

(***************************************************************************)
(* validate_openapi.py                                                     *)
(***************************************************************************)
\* The run of a function body: the lines printed, and how it ended.
Running == [done |-> FALSE, ret |-> FALSE, exc |-> "", out |-> <<>>]

Line(text, value) == [t |-> text, v |-> value]

Emit(st, text, value) == [st EXCEPT !.out = Append(@, Line(text, value))]

Return(st, b) == [st EXCEPT !.done = TRUE, !.ret = b]

Throw(st, class) == [st EXCEPT !.done = TRUE, !.exc = class]

\* a file of the working directory
File(kind, body) == [kind |-> kind, body |-> body]

Missing == File("missing", Garbage)

\* open(path) and yaml.safe_load / json.load
LoadFile(file, loader) ==
    CASE file.kind # "file" -> Raise("OSError")
      [] loader = "yaml" ->
            IF file.body.syntax = "bad" THEN Raise("YAMLError")
            ELSE Ok(Construct(file.body.node))
      [] loader = "json" ->
            IF file.body.syntax # "json" THEN Raise("JSONDecodeError")
            ELSE Ok(Construct(file.body.node))

\* for field in fields: if field not in x: the first such field, as an index
\* of fields (0: none), or the exception of the test
RECURSIVE FirstMissing(_, _, _)
FirstMissing(fields, x, i) ==
    IF i > Len(fields) THEN Ok(0)
    ELSE LET r == PyIn(fields[i], x)
         IN  IF r.exc # "" THEN Raise(r.exc)
             ELSE IF ~r.val THEN Ok(i)
             ELSE FirstMissing(fields, x, i + 1)

required_fields == <<"openapi", "info", "paths">>

info_required == <<"title", "version">>

\* lines 33-37
CheckRequired(st, spec) ==
    LET r == FirstMissing(required_fields, spec, 1)
    IN  IF r.exc # "" THEN Throw(st, r.exc)
        ELSE IF r.val # 0
        THEN Return(Emit(st, "Missing required field", PyStr(required_fields[r.val])), FALSE)
        ELSE st

\* lines 40-42 without the test of the version
CheckVersionAny(st, spec) == st

\* lines 40-42
CheckVersion(st, spec) ==
    LET v == PySubscript(spec, "openapi")
        w == PyStartsWith(v.val, "3.")
    IN  IF v.exc # "" THEN Throw(st, v.exc)
        ELSE IF w.exc # "" THEN Throw(st, w.exc)
        ELSE IF ~w.val
        THEN Return(Emit(st, "Unsupported OpenAPI version", v.val), FALSE)
        ELSE st

\* lines 45-49; spec['info'] is read in each test
CheckInfo(st, spec) ==
    LET info == PySubscript(spec, "info")
        r    == FirstMissing(info_required, info.val, 1)
    IN  IF info.exc # "" THEN Throw(st, info.exc)
        ELSE IF r.exc # "" THEN Throw(st, r.exc)
        ELSE IF r.val # 0
        THEN Return(Emit(st, "Missing required info field", PyStr(info_required[r.val])), FALSE)
        ELSE st

\* line 52: len(spec.get('paths', {}))
PathsCount(spec) ==
    LET paths == PyGet(spec, "paths")
    IN  IF paths.exc # "" THEN Raise(paths.exc) ELSE PyLen(paths.val)

\* line 53: len(spec.get('components', {}).get('schemas', {}))
SchemasCount(spec) ==
    LET components == PyGet(spec, "components")
        schemas    == PyGet(components.val, "schemas")
    IN  IF components.exc # "" THEN Raise(components.exc)
        ELSE IF schemas.exc # "" THEN Raise(schemas.exc)
        ELSE PyLen(schemas.val)

\* lines 55-60: each line is formatted, then printed
Report(st, spec) ==
    LET paths_count   == PathsCount(spec)
        schemas_count == SchemasCount(spec)
        version       == PySubscript(spec, "openapi")
        info          == PySubscript(spec, "info")
        title         == PySubscript(info.val, "title")
        api_version   == PySubscript(info.val, "version")
        st1           == Emit(st, "OpenAPI specification is valid", PyNone)
        st2           == Emit(st1, "Version", version.val)
        st3           == Emit(st2, "Title", title.val)
        st4           == Emit(st3, "API Version", api_version.val)
        st5           == Emit(st4, "Paths", paths_count.val)
    IN  IF paths_count.exc # "" THEN Throw(st, paths_count.exc)
        ELSE IF schemas_count.exc # "" THEN Throw(st, schemas_count.exc)
        ELSE IF version.exc # "" THEN Throw(st1, version.exc)
        ELSE IF info.exc # "" THEN Throw(st2, info.exc)
        ELSE IF title.exc # "" THEN Throw(st2, title.exc)
        ELSE IF api_version.exc # "" THEN Throw(st3, api_version.exc)
        ELSE Emit(st5, "Schemas", schemas_count.val)

\* the result of the first of a sequence of results that raises, if any does
FirstRaise(results) ==
    LET raising == {i \in 1..Len(results) : results[i].exc # ""}
    IN  IF raising = {} THEN Ok(PyNone)
        ELSE results[CHOOSE i \in raising : \A j \in raising : i <= j]

\* lines 65-67: the tags the operations of one path add
OperationTags(operations) ==
    LET added == [i \in 1..Len(operations) |->
                    IF /\ operations[i].t = "dict"
                       /\ HasKey(operations[i], PyStr("tags"))
                    THEN PyElements(GetItem(operations[i], PyStr("tags")))
                    ELSE Ok({})]
    IN  IF FirstRaise(added).exc # "" THEN FirstRaise(added)
        ELSE Ok(UNION {added[i].val : i \in 1..Len(added)})

\* lines 63-67: the first exception of the loops, or the tags they collect
PathTags(path_objs) ==
    LET added == [i \in 1..Len(path_objs) |->
                    LET operations == PyValues(path_objs[i])
                    IN  IF operations.exc # "" THEN operations
                        ELSE OperationTags(operations.val)]
    IN  IF FirstRaise(added).exc # "" THEN FirstRaise(added)
        ELSE Ok(UNION {added[i].val : i \in 1..Len(added)})

\* line 69: ', '.join(sorted(tags)) needs every tag to be a str; the line
\* printed is a function of the set
SortedJoin(tags) ==
    IF \A x \in tags : x.t = "str" THEN Ok(tags) ELSE Raise("TypeError")

\* lines 62-71
ListTags(st, spec) ==
    LET paths     == PySubscript(spec, "paths")
        path_objs == PyValues(paths.val)
        tags      == PathTags(path_objs.val)
        joined    == SortedJoin(tags.val)
    IN  IF paths.exc # "" THEN Throw(st, paths.exc)
        ELSE IF path_objs.exc # "" THEN Throw(st, path_objs.exc)
        ELSE IF tags.exc # "" THEN Throw(st, tags.exc)
        ELSE IF joined.exc # "" THEN Throw(st, joined.exc)
        ELSE Return(Emit(st, "Tags", joined.val), TRUE)

\* a step of the try block, skipped once the body has returned or raised
Then(st, next) == IF st.done THEN st ELSE next

\* lines 32-71
Checks(st, spec) ==
    LET a == CheckRequired(st, spec)
        b == Then(a, CheckVersion(a, spec))
        c == Then(b, CheckInfo(b, spec))
        d == Then(c, Report(c, spec))
    IN  Then(d, ListTags(d, spec))

\* lines 20-30, then the checks
TryBlock(st, file_path, file) ==
    LET suffix == Lower(Suffix(file_path))
        loader == IF suffix \in {".yaml", ".yml"} THEN "yaml"
                  ELSE IF suffix = ".json" THEN "json" ELSE "none"
        spec   == LoadFile(file, loader)
    IN  IF loader = "none"
        THEN Return(Emit(st, "Unsupported file format", PyStr(Suffix(file_path))), FALSE)
        ELSE IF spec.exc # "" THEN Throw(st, spec.exc)
        ELSE Checks(st, spec.val)

\* lines 73-78 alone: the parse errors caught, no except Exception
HandlersParseOnly(st) ==
    CASE st.exc = "YAMLError" ->
            [Emit(st, "YAML parsing error", PyNone) EXCEPT !.exc = "", !.ret = FALSE]
      [] st.exc = "JSONDecodeError" ->
            [Emit(st, "JSON parsing error", PyNone) EXCEPT !.exc = "", !.ret = FALSE]
      [] OTHER -> st

\* lines 73-81: the except clauses. Every exception the body can raise is an
\* Exception.
Handlers(st) ==
    CASE st.exc = "" -> st
      [] st.exc = "YAMLError" ->
            [Emit(st, "YAML parsing error", PyNone) EXCEPT !.exc = "", !.ret = FALSE]
      [] st.exc = "JSONDecodeError" ->
            [Emit(st, "JSON parsing error", PyNone) EXCEPT !.exc = "", !.ret = FALSE]
      [] OTHER ->
            [Emit(st, "Validation error", PyStr(st.exc)) EXCEPT !.exc = "", !.ret = FALSE]

\* validate_openapi_spec(file_path) in the directory dir: what it returns
\* (ret), the exception that reaches the caller (exc, "" for none), and what
\* it prints (out)
validate_openapi_spec(file_path, dir) ==
    LET file == dir[file_path]
    IN  IF file.kind = "missing"
        THEN Return(Emit(Running, "File not found", PyStr(file_path)), FALSE)
        ELSE Handlers(TryBlock(Running, file_path, file))

(***************************************************************************)
(* The validator's inputs: documents of every shape the checks tell apart, *)
(* as files of the working directory.                                      *)
(***************************************************************************)
\* a key a document does not have
Absent == [t |-> "absent", v |-> ""]

Opt(name, value) == IF value = Absent THEN <<>> ELSE <<Entry(name, value)>>

OpenapiCases ==
    {Absent, PyStr("3.0.3"), PyStr("3.1.0"), PyStr("2.0"), PyStr("30"),
     PyFloat("3.0"), PyNone}

InfoCases ==
    {Absent,
     PyDict(<<Entry("title", PyStr("Mastodon API")), Entry("version", PyStr("4.3.0"))>>),
     PyDict(<<Entry("title", PyStr("Mastodon API")), Entry("version", PyFloat("4.3")),
              Entry("description", PyStr("API for Mastodon"))>>),
     PyDict(<<Entry("title", PyStr("Mastodon API"))>>),
     PyDict(<<Entry("version", PyStr("4.3.0"))>>),
     EmptyDict,
     PyStr("title version"),
     PyList(<<PyStr("title"), PyStr("version")>>),
     PyNone}

TaggedOperation(tags) == PyDict(<<Entry("summary", PyStr("Get account")), Entry("tags", tags)>>)

PathsCases ==
    {Absent,
     EmptyDict,
     PyDict(<<Entry("/api/v1/accounts/{id}",
                    PyDict(<<Entry("get", TaggedOperation(PyList(<<PyStr("accounts")>>)))>>))>>),
     PyDict(<<Entry("/api/v1/accounts/{id}",
                    PyDict(<<Entry("get", TaggedOperation(PyList(<<PyStr("accounts")>>)))>>)),
              Entry("/api/v1/statuses",
                    PyDict(<<Entry("get", PyDict(<<Entry("summary", PyStr("Get status"))>>)),
                             Entry("post", TaggedOperation(PyList(<<PyStr("statuses"), PyStr("accounts")>>))),
                             Entry("parameters", PyList(<<>>)),
                             Entry("summary", PyStr("Get status"))>>))>>),
     PyList(<<>>),
     PyList(<<EmptyDict>>),
     PyNone,
     PyInt("0"),
     PyStr("paths"),
     PyDict(<<Entry("/api/v1/statuses", PyStr("Get status"))>>),
     PyDict(<<Entry("/api/v1/statuses", PyNone)>>),
     PyDict(<<Entry("/api/v1/statuses", PyDict(<<Entry("get", TaggedOperation(PyStr("ab")))>>))>>),
     PyDict(<<Entry("/api/v1/statuses", PyDict(<<Entry("get", TaggedOperation(PyList(<<PyInt("1")>>)))>>))>>),
     PyDict(<<Entry("/api/v1/statuses", PyDict(<<Entry("get", TaggedOperation(PyNone))>>))>>),
     PyDict(<<Entry("/api/v1/statuses",
                    PyDict(<<Entry("get", TaggedOperation(PyList(<<PyList(<<>>)>>)))>>))>>)}

Schema == PyDict(<<Entry("type", PyStr("object"))>>)

ComponentsCases ==
    {Absent,
     EmptyDict,
     PyDict(<<Entry("schemas", EmptyDict)>>),
     PyDict(<<Entry("schemas", PyDict(<<Entry("Account", Schema), Entry("Status", Schema)>>)),
              Entry("securitySchemes", EmptyDict)>>),
     PyDict(<<Entry("schemas", PyList(<<Schema, Schema>>))>>),
     PyDict(<<Entry("schemas", PyStr("abc"))>>),
     PyDict(<<Entry("schemas", PyNone)>>),
     PyNone,
     PyList(<<>>),
     PyStr("schemas")}

\* the documents that are mappings
MappingDocs ==
    {PyDict(Opt("openapi", o) \o Opt("info", i) \o Opt("paths", p) \o Opt("components", c)) :
        o \in OpenapiCases, i \in InfoCases, p \in PathsCases, c \in ComponentsCases}

\* the documents that are not
OtherDocs ==
    {PyNone, PyInt("3"), PyStr("openapi info paths"),
     PyList(<<PyStr("openapi"), PyStr("info"), PyStr("paths")>>)}

\* a complete document with keys the validator does not read
FullDoc ==
    PyDict(<<Entry("openapi", PyStr("3.0.3")),
             Entry("x-generator", PyStr("abc")),
             Entry("info", PyDict(<<Entry("title", PyStr("Mastodon API")),
                                    Entry("version", PyStr("4.3.0"))>>)),
             Entry("servers", PyList(<<>>)),
             Entry("paths", EmptyDict)>>)

TestDocs == MappingDocs \cup OtherDocs \cup {FullDoc}

\* every document under the two names main reads, in the format of the name
MainFiles ==
    {<<"mastodon-openapi.yaml", File("file", YamlDump(doc))>> : doc \in TestDocs}
    \cup {<<"mastodon-openapi.json", File("file", JsonDump(doc))>> : doc \in TestDocs}

\* other names and other files
TestPaths ==
    {"mastodon-openapi.yaml", "mastodon-openapi.json", "openapi.YAML", "openapi.yml",
     "API.Json", "openapi.txt", "openapi", ".yaml", "out/openapi.json", "openapi.yaml.bak"}

OtherFiles ==
    {Missing, File("dir", Garbage), File("file", Garbage),
     File("file", YamlDump(FullDoc)), File("file", JsonDump(FullDoc)),
     File("file", YamlDump(PyNone))}

ValidatorInputs ==
    MainFiles \cup {<<path, file>> : path \in TestPaths, file \in OtherFiles}

(***************************************************************************)
(* validate_openapi_spec as a function of the file: a caller makes up to   *)
(* MaxCalls calls on one file.                                             *)
(***************************************************************************)
MaxCalls == 1

Call(file_path, result) ==
    [path |-> file_path, ret |-> result.ret, exc |-> result.exc, out |-> result.out]

InitValidate ==
    /\ \E input \in ValidatorInputs : fs = (input[1] :> input[2])
    /\ vpc = "caller"
    /\ vi = 0
    /\ vcalls = <<>>
    /\ gen = <<>>
    /\ net = <<>>

ValidateCall ==
    /\ vpc = "caller"
    /\ Len(vcalls) < MaxCalls
    /\ \E file_path \in DOMAIN fs :
          vcalls' = Append(vcalls, Call(file_path, validate_openapi_spec(file_path, fs)))
    /\ UNCHANGED <<fs, vpc, vi, gen, net>>

NextValidate == ValidateCall

SpecValidate == InitValidate /\ [][NextValidate]_vars

(***************************************************************************)
(* validate_openapi.py: main, in a working directory that holds any of a   *)
(* few files under the two names.                                          *)
(***************************************************************************)
\* line 88
files == <<"mastodon-openapi.yaml", "mastodon-openapi.json">>

NoPathsDoc ==
    PyDict(<<Entry("openapi", PyStr("3.0.3")),
             Entry("info", PyDict(<<Entry("title", PyStr("Mastodon API")),
                                    Entry("version", PyStr("4.3.0"))>>))>>)

ListPathsDoc == SetItem(NoPathsDoc, PyStr("paths"), PyList(<<>>))

FilesOnDisk ==
    {Missing, File("file", Garbage), File("dir", Garbage)}
    \cup {File("file", YamlDump(doc)) : doc \in {FullDoc, NoPathsDoc, ListPathsDoc}}
    \cup {File("file", JsonDump(doc)) : doc \in {FullDoc, NoPathsDoc}}

InitMain ==
    /\ fs \in [{files[i] : i \in 1..Len(files)} -> FilesOnDisk]
    /\ vpc = "main"
    /\ vi = 0
    /\ vcalls = <<>>
    /\ gen = <<>>
    /\ net = <<>>

\* lines 84-88
MainStart ==
    /\ vpc = "main"
    /\ vpc' = "loop"
    /\ vi' = 1
    /\ UNCHANGED <<fs, vcalls, gen, net>>

\* lines 90-92 with a loop that stops at the first file that fails
MainValidateUntilFailure ==
    /\ vpc = "loop"
    /\ vi <= Len(files)
    /\ LET result == validate_openapi_spec(files[vi], fs)
       IN  /\ vcalls' = Append(vcalls, Call(files[vi], result))
           /\ vpc' = "loop"
           /\ vi' = IF result.ret THEN vi + 1 ELSE Len(files) + 1
    /\ UNCHANGED <<fs, gen, net>>

\* lines 90-92: one turn of the loop; an exception of the call would end main
MainValidate ==
    /\ vpc = "loop"
    /\ vi <= Len(files)
    /\ LET result == validate_openapi_spec(files[vi], fs)
       IN  /\ vcalls' = Append(vcalls, Call(files[vi], result))
           /\ IF result.exc # ""
              THEN vpc' = "raised" /\ vi' = vi
              ELSE vpc' = "loop" /\ vi' = vi + 1
    /\ UNCHANGED <<fs, gen, net>>

\* the loop is over
MainEnd ==
    /\ vpc = "loop"
    /\ vi > Len(files)
    /\ vpc' = "done"
    /\ UNCHANGED <<fs, vi, vcalls, gen, net>>

NextMain == MainStart \/ MainValidate \/ MainEnd

SpecMain == InitMain /\ [][NextMain]_vars

(***************************************************************************)
(* The generators: generate_openapi.py (MastodonDocsParser),               *)
(* generate_sample_openapi.py (MastodonDocsGenerator) and                  *)
(* generate_comprehensive_openapi.py (ComprehensiveMastodonGenerator).     *)
(* The dataclasses are the same in the three files, but for the items_ref  *)
(* of the comprehensive PropertyInfo, which the other two never read.      *)
(* Every field holds a Python value.                                       *)
(***************************************************************************)
ParameterInfo(name, type, description) ==
    [name |-> PyStr(name), type |-> PyStr(type), description |-> PyStr(description),
     required |-> PyBool(FALSE), location |-> PyStr("query")]

ResponseInfo(status_code, description, schema_ref) ==
    [status_code |-> PyStr(status_code), description |-> PyStr(description),
     schema_ref |-> schema_ref]

EndpointInfo(path, method, summary, description, tags) ==
    [path |-> PyStr(path), method |-> PyStr(method), summary |-> summary,
     description |-> description, parameters |-> <<>>, responses |-> <<>>,
     tags |-> tags]

PropertyInfo(name, type, description) ==
    [name |-> PyStr(name), type |-> PyStr(type), description |-> PyStr(description),
     required |-> PyBool(TRUE), nullable |-> PyBool(FALSE), format |-> PyNone,
     items_ref |-> PyNone]

EntityInfo(name, description) ==
    [name |-> PyStr(name), description |-> description, properties |-> <<>>]

\* the three classes
Parser == "MastodonDocsParser"

Sample == "MastodonDocsGenerator"

Comprehensive == "ComprehensiveMastodonGenerator"

\* __init__: no entities, no endpoints; requested is the log of the paths
\* asked of the API
NewGenerator(class) ==
    [class |-> class, entities |-> EmptyDict, endpoints |-> <<>>, requested |-> <<>>]

\* the dict literal generate_openapi_spec starts from: the comprehensive one
\* has descriptions of its own
SpecLiteral(class) ==
    PyDict(<<
        Entry("openapi", PyStr("3.0.3")),
        Entry("info", PyDict(<<
            Entry("title", PyStr("Mastodon API")),
            Entry("description", PyStr(
                IF class = Comprehensive
                THEN "The Mastodon REST API. Please see https://docs.joinmastodon.org/api/ for more details."
                ELSE "API for Mastodon, a decentralized social network")),
            Entry("version", PyStr("4.3.0")),
            Entry("contact", PyDict(<<
                Entry("name", PyStr("Mastodon Project")),
                Entry("url", PyStr("https://joinmastodon.org"))>>)),
            Entry("license", PyDict(<<
                Entry("name", PyStr("AGPL-3.0")),
                Entry("url", PyStr("https://github.com/mastodon/mastodon/blob/main/LICENSE"))>>))>>)),
        Entry("servers", PyList(<<
            PyDict(<<
                Entry("url", PyStr("https://{instance}")),
                Entry("description", PyStr("Mastodon instance")),
                Entry("variables", PyDict(<<
                    Entry("instance", PyDict(<<
                        Entry("default", PyStr("mastodon.social")),
                        Entry("description", PyStr("The domain of your Mastodon instance"))>>))>>))>>)>>)),
        Entry("paths", EmptyDict),
        Entry("components", PyDict(<<
            Entry("schemas", EmptyDict),
            Entry("securitySchemes", PyDict(<<
                Entry("OAuth2", PyDict(
                    <<Entry("type", PyStr("oauth2"))>>
                    \o (IF class = Comprehensive
                        THEN <<Entry("description", PyStr("OAuth 2.0 authorization code flow"))>>
                        ELSE <<>>)
                    \o <<Entry("flows", PyDict(<<
                        Entry("authorizationCode", PyDict(<<
                            Entry("authorizationUrl", PyStr("https://{instance}/oauth/authorize")),
                            Entry("tokenUrl", PyStr("https://{instance}/oauth/token")),
                            Entry("scopes",
                                IF class = Comprehensive
                                THEN PyDict(<<
                                    Entry("read", PyStr("Read access to account data")),
                                    Entry("write", PyStr("Write access to account data")),
                                    Entry("follow", PyStr("Access to manage relationships")),
                                    Entry("push", PyStr("Access to Web Push API subscriptions"))>>)
                                ELSE PyDict(<<
                                    Entry("read", PyStr("Read access")),
                                    Entry("write", PyStr("Write access")),
                                    Entry("follow", PyStr("Follow users")),
                                    Entry("push", PyStr("Push notifications"))>>))>>))>>))>>)),
                Entry("BearerAuth", PyDict(
                    <<Entry("type", PyStr("http")),
                      Entry("scheme", PyStr("bearer"))>>
                    \o (IF class = Comprehensive
                        THEN <<Entry("description", PyStr("Bearer token authentication"))>>
                        ELSE <<>>)))>>))>>))>>)

\* {"$ref": f"#/components/schemas/{name}"}: the f-string writes True for True
SchemaRef(name) ==
    PyDict(<<Entry("$ref", PyStr("#/components/schemas/" \o
                (CASE name.t = "bool" -> IF name.v THEN "True" ELSE "False"
                   [] OTHER -> name.v)))>>)

\* prop_schema with its type, description, format and nullable keys
PropSchemaBase(prop) ==
    LET typed     == PyDict(<<Entry("type", prop.type),
                              Entry("description", prop.description)>>)
        formatted == IF Truthy(prop.format)
                     THEN SetItem(typed, PyStr("format"), prop.format) ELSE typed
    IN  IF Truthy(prop.nullable)
        THEN SetItem(formatted, PyStr("nullable"), PyBool(TRUE)) ELSE formatted

StringItems == PyDict(<<Entry("type", PyStr("string"))>>)

\* generate_openapi.py: every array is an array of strings
PropSchemaParser(prop) ==
    IF prop.type = PyStr("array")
    THEN SetItem(PropSchemaBase(prop), PyStr("items"), StringItems)
    ELSE PropSchemaBase(prop)

\* generate_sample_openapi.py: items and object references by property name
PropSchemaSample(prop) ==
    LET base  == PropSchemaBase(prop)
        items == CASE prop.name = PyStr("emojis") -> SchemaRef(PyStr("CustomEmoji"))
                   [] prop.name = PyStr("fields") -> SchemaRef(PyStr("Field"))
                   [] prop.name = PyStr("media_attachments") -> SchemaRef(PyStr("MediaAttachment"))
                   [] prop.name = PyStr("tags") -> SchemaRef(PyStr("Tag"))
                   [] OTHER -> StringItems
    IN  CASE prop.type = PyStr("array") -> SetItem(base, PyStr("items"), items)
          [] prop.type = PyStr("object") ->
                CASE prop.name = PyStr("account") -> SchemaRef(PyStr("Account"))
                  [] prop.name = PyStr("application") -> SchemaRef(PyStr("Application"))
                  [] prop.name = PyStr("poll") -> SchemaRef(PyStr("Poll"))
                  [] prop.name = PyStr("reblog") -> SchemaRef(PyStr("Status"))
                  [] OTHER -> PyDict(<<Entry("type", PyStr("object"))>>)
          [] OTHER -> base

ref_map ==
    PyDict(<<Entry("account", PyStr("Account")), Entry("status", PyStr("Status")),
             Entry("application", PyStr("Application")), Entry("poll", PyStr("Poll")),
             Entry("reblog", PyStr("Status")), Entry("last_status", PyStr("Status")),
             Entry("moved", PyStr("Account"))>>)

\* generate_comprehensive_openapi.py: items by items_ref, objects by ref_map
PropSchemaComprehensive(prop) ==
    LET base == PropSchemaBase(prop)
    IN  CASE prop.type = PyStr("array") ->
                SetItem(base, PyStr("items"),
                        IF Truthy(prop.items_ref) THEN SchemaRef(prop.items_ref)
                        ELSE StringItems)
          [] /\ prop.type = PyStr("object")
             /\ prop.name \in {PyStr("account"), PyStr("status"), PyStr("application"),
                               PyStr("poll"), PyStr("reblog"), PyStr("last_status"),
                               PyStr("moved")} ->
                SchemaRef(GetOr(ref_map, prop.name, PyStr("object")))
          [] OTHER -> base

PropSchema(class, prop) ==
    CASE class = Parser -> PropSchemaParser(prop)
      [] class = Sample -> PropSchemaSample(prop)
      [] class = Comprehensive -> PropSchemaComprehensive(prop)

\* the properties dict of an entity: properties[prop.name] = prop_schema
SchemaProperties(class, props) ==
    Assign(EmptyDict, [i \in 1..Len(props) |-> props[i].name],
                      [i \in 1..Len(props) |-> PropSchema(class, props[i])])

\* lines 330-331 without the test of prop.required: every name, in order
RequiredPropsAll(props) == [i \in 1..Len(props) |-> props[i].name]

\* required_props: the names of the properties with a true required, in order
RequiredProps(props) ==
    LET required == SelectSeq(props, LAMBDA prop : Truthy(prop.required))
    IN  [i \in 1..Len(required) |-> required[i].name]

\* the schema of one entity
EntitySchema(class, entity) ==
    LET schema == PyDict(<<
                    Entry("type", PyStr("object")),
                    Entry("description", entity.description),
                    Entry("properties", SchemaProperties(class, entity.properties))>>)
        required_props == RequiredProps(entity.properties)
    IN  IF required_props # <<>>
        THEN SetItem(schema, PyStr("required"), PyList(required_props))
        ELSE schema

\* for entity_name, entity in self.entities.items(): schemas[entity_name] = ...
AddSchemas(class, items, schemas) ==
    Assign(schemas, [i \in 1..Len(items) |-> items[i].k],
                    [i \in 1..Len(items) |-> EntitySchema(class, items[i].v)])

ParamSchema(param) ==
    PyDict(<<Entry("name", param.name), Entry("in", param.location),
             Entry("description", param.description),
             Entry("required", param.required),
             Entry("schema", PyDict(<<Entry("type", param.type)>>))>>)

RespSchema(response) ==
    LET described == PyDict(<<Entry("description", response.description)>>)
    IN  IF Truthy(response.schema_ref)
        THEN SetItem(described, PyStr("content"), PyDict(<<
                Entry("application/json", PyDict(<<
                    Entry("schema", SchemaRef(response.schema_ref))>>))>>))
        ELSE described

\* responses[response.status_code] = resp_schema
Responses(resps) ==
    Assign(EmptyDict, [i \in 1..Len(resps) |-> resps[i].status_code],
                      [i \in 1..Len(resps) |-> RespSchema(resps[i])])

BearerSecurity == PyList(<<PyDict(<<Entry("BearerAuth", PyList(<<>>))>>)>>)

\* generate_openapi.py: parameters and security always there
OperationParser(endpoint) ==
    PyDict(<<
        Entry("summary", endpoint.summary),
        Entry("description", endpoint.description),
        Entry("tags", PyList(endpoint.tags)),
        Entry("parameters", PyList([i \in 1..Len(endpoint.parameters) |->
                                        ParamSchema(endpoint.parameters[i])])),
        Entry("responses", Responses(endpoint.responses)),
        Entry("security", BearerSecurity)>>)

\* the operation of the hardcoded generators before its security
OperationBase(endpoint) ==
    LET operation == PyDict(<<
                        Entry("summary", endpoint.summary),
                        Entry("description", endpoint.description),
                        Entry("tags", PyList(endpoint.tags)),
                        Entry("responses", Responses(endpoint.responses))>>)
    IN  IF endpoint.parameters # <<>>
        THEN SetItem(operation, PyStr("parameters"),
                     PyList([i \in 1..Len(endpoint.parameters) |->
                                ParamSchema(endpoint.parameters[i])]))
        ELSE operation

\* line 410 read as not startswith("/oauth") and (method != "get" or
\* "timeline" in path)
SecuredSampleGrouped(endpoint) ==
    /\ ~StartsWith(endpoint.path.v, "/oauth")
    /\ \/ endpoint.method # PyStr("get")
       \/ Contains(endpoint.path.v, "timeline")

\* generate_sample_openapi.py line 410
SecuredSample(endpoint) ==
    \/ ~StartsWith(endpoint.path.v, "/oauth") /\ endpoint.method # PyStr("get")
    \/ Contains(endpoint.path.v, "timeline")

\* line 701 without the test of the path: no get has security
SecuredUnlessGet(endpoint) == endpoint.method # PyStr("get")

\* generate_comprehensive_openapi.py line 701
SecuredComprehensive(endpoint) ==
    ~ /\ endpoint.method = PyStr("get")
      /\ \/ Contains(endpoint.path.v, "public")
         \/ Contains(endpoint.path.v, "instance")

Operation(class, endpoint) ==
    CASE class = Parser -> OperationParser(endpoint)
      [] class = Sample ->
            IF SecuredSample(endpoint)
            THEN SetItem(OperationBase(endpoint), PyStr("security"), BearerSecurity)
            ELSE OperationBase(endpoint)
      [] class = Comprehensive ->
            IF SecuredComprehensive(endpoint)
            THEN SetItem(OperationBase(endpoint), PyStr("security"), BearerSecurity)
            ELSE OperationBase(endpoint)

\* the path of the endpoint as the key, without the replace of line 372
PathAsHeld(class, endpoint) == endpoint.path

\* the key of an endpoint in paths
OpenapiPath(class, endpoint) ==
    CASE class = Parser -> endpoint.path
      [] class = Sample -> PyStr(Replace(endpoint.path.v, ":id", "{id}"))
      [] class = Comprehensive ->
            PyStr(Replace(Replace(endpoint.path.v, "{", "{"), "}", "}"))

\* for endpoint in self.endpoints: paths[openapi_path][endpoint.method] =
\* operation, in a path item that starts empty. The item of a path holds the
\* operations of the endpoints of that path so far.
AddPaths(class, endpoints, paths) ==
    LET keys    == [i \in 1..Len(endpoints) |-> OpenapiPath(class, endpoints[i])]
        item(i) ==
            LET same == SelectSeq([j \in 1..i |-> j], LAMBDA j : keys[j] = keys[i])
            IN  Assign(GetOr(paths, keys[i], EmptyDict),
                       [r \in 1..Len(same) |-> endpoints[same[r]].method],
                       [r \in 1..Len(same) |-> Operation(class, endpoints[same[r]])])
    IN  Assign(paths, keys, [i \in 1..Len(endpoints) |-> item(i)])

\* generate_openapi_spec with spec["components"] = {"schemas": schemas}
\* in place of the assignments into spec["components"]["schemas"]
GenerateReplacingComponents(self) ==
    LET spec       == SpecLiteral(self.class)
        components == GetItem(spec, PyStr("components"))
        schemas    == AddSchemas(self.class, self.entities.v,
                                 GetItem(components, PyStr("schemas")))
        paths      == AddPaths(self.class, self.endpoints, GetItem(spec, PyStr("paths")))
    IN  SetItem(SetItem(spec, PyStr("paths"), paths),
                PyStr("components"), PyDict(<<Entry("schemas", schemas)>>))

\* generate_openapi_spec(self) of the three classes
generate_openapi_spec(self) ==
    LET spec       == SpecLiteral(self.class)
        components == GetItem(spec, PyStr("components"))
        schemas    == AddSchemas(self.class, self.entities.v,
                                 GetItem(components, PyStr("schemas")))
        paths      == AddPaths(self.class, self.endpoints, GetItem(spec, PyStr("paths")))
    IN  SetItem(SetItem(spec, PyStr("paths"), paths),
                PyStr("components"), SetItem(components, PyStr("schemas"), schemas))

(***************************************************************************)
(* The tables of the hardcoded generators and what create_* makes of them. *)
(***************************************************************************)
\* generate_sample_openapi.py lines 64-85
SAMPLE_ENDPOINTS ==
    <<
        <<"accounts", "GET", "/api/v1/accounts/:id", "Get account", "Retrieve information about an account">>,
        <<"accounts", "POST", "/api/v1/accounts", "Create account", "Register a new account">>,
        <<"accounts", "PATCH", "/api/v1/accounts/update_credentials", "Update account", "Update user credentials">>,
        <<"statuses", "GET", "/api/v1/statuses/:id", "Get status", "Retrieve a status">>,
        <<"statuses", "POST", "/api/v1/statuses", "Create status", "Publish a new status">>,
        <<"statuses", "DELETE", "/api/v1/statuses/:id", "Delete status", "Delete a status">>,
        <<"timelines", "GET", "/api/v1/timelines/home", "Home timeline", "Get home timeline">>,
        <<"timelines", "GET", "/api/v1/timelines/public", "Public timeline", "Get public timeline">>,
        <<"notifications", "GET", "/api/v1/notifications", "Get notifications", "Retrieve notifications">>,
        <<"follow_requests", "GET", "/api/v1/follow_requests", "Get follow requests", "Retrieve follow requests">>,
        <<"follow_requests", "POST", "/api/v1/follow_requests/:id/authorize", "Accept follow request", "Accept a follow request">>,
        <<"follow_requests", "POST", "/api/v1/follow_requests/:id/reject", "Reject follow request", "Reject a follow request">>,
        <<"media", "POST", "/api/v1/media", "Upload media", "Upload a media attachment">>,
        <<"polls", "GET", "/api/v1/polls/:id", "Get poll", "Retrieve a poll">>,
        <<"polls", "POST", "/api/v1/polls/:id/votes", "Vote in poll", "Vote in a poll">>,
        <<"search", "GET", "/api/v2/search", "Search", "Search for content">>,
        <<"instance", "GET", "/api/v1/instance", "Get instance", "Get instance information">>,
        <<"apps", "POST", "/api/v1/apps", "Create app", "Create a new application">>,
        <<"oauth", "POST", "/oauth/token", "Get token", "Obtain an access token">>,
        <<"streaming", "GET", "/api/v1/streaming/user", "User stream", "Stream user events">>>>

\* generate_sample_openapi.py, create_sample_entities: the four entities written out
\* lines 96-122
sample_account ==
    [EntityInfo("Account", PyStr("Represents a user of Mastodon and their associated profile.")) EXCEPT !.properties =
        <<
        PropertyInfo("id", "string", "The account id"),
        PropertyInfo("username", "string", "The username of the account, not including domain"),
        PropertyInfo("acct", "string", "The Webfinger account URI"),
        PropertyInfo("display_name", "string", "The profile's display name"),
        PropertyInfo("locked", "boolean", "Whether the account manually approves follow requests"),
        PropertyInfo("bot", "boolean", "Whether the account may perform automated actions"),
        [PropertyInfo("discoverable", "boolean", "Whether the account has opted into discovery features") EXCEPT !.required = PyBool(FALSE), !.nullable = PyBool(TRUE)],
        [PropertyInfo("group", "boolean", "Whether the account represents a Group actor") EXCEPT !.required = PyBool(FALSE)],
        [PropertyInfo("created_at", "string", "When the account was created") EXCEPT !.format = PyStr("date-time")],
        PropertyInfo("note", "string", "The profile's bio / description"),
        [PropertyInfo("url", "string", "The location of the user's profile page") EXCEPT !.format = PyStr("uri")],
        [PropertyInfo("avatar", "string", "An image icon that is shown next to statuses and in the profile") EXCEPT !.format = PyStr("uri")],
        [PropertyInfo("avatar_static", "string", "A static version of the avatar") EXCEPT !.format = PyStr("uri")],
        [PropertyInfo("header", "string", "An image banner that is shown above the profile") EXCEPT !.format = PyStr("uri")],
        [PropertyInfo("header_static", "string", "A static version of the header") EXCEPT !.format = PyStr("uri")],
        PropertyInfo("followers_count", "integer", "The reported followers of this profile"),
        PropertyInfo("following_count", "integer", "The reported follows of this profile"),
        PropertyInfo("statuses_count", "integer", "How many statuses are attached to this account"),
        [PropertyInfo("last_status_at", "string", "When the most recent status was posted") EXCEPT !.format = PyStr("date"), !.nullable = PyBool(TRUE)],
        PropertyInfo("emojis", "array", "Custom emoji entities to be used when rendering the profile"),
        PropertyInfo("fields", "array", "Additional metadata attached to a profile as name-value pairs")>>]

\* lines 126-156
sample_status ==
    [EntityInfo("Status", PyStr("Represents a status posted by an account.")) EXCEPT !.properties =
        <<
        PropertyInfo("id", "string", "ID of the status in the database"),
        [PropertyInfo("uri", "string", "URI of the status used for federation") EXCEPT !.format = PyStr("uri")],
        [PropertyInfo("created_at", "string", "The date when this status was created") EXCEPT !.format = PyStr("date-time")],
        PropertyInfo("account", "object", "The account that authored this status"),
        PropertyInfo("content", "string", "HTML-encoded status content"),
        PropertyInfo("visibility", "string", "Visibility of this status"),
        PropertyInfo("sensitive", "boolean", "Is this status marked as sensitive content?"),
        PropertyInfo("spoiler_text", "string", "Subject or summary line, below which status content is collapsed"),
        PropertyInfo("media_attachments", "array", "Media that is attached to this status"),
        [PropertyInfo("application", "object", "The application used to post this status") EXCEPT !.nullable = PyBool(TRUE)],
        PropertyInfo("mentions", "array", "Mentions of users within the status content"),
        PropertyInfo("tags", "array", "Hashtags used within the status content"),
        PropertyInfo("emojis", "array", "Custom emoji to be used when rendering status content"),
        PropertyInfo("reblogs_count", "integer", "How many boosts this status has received"),
        PropertyInfo("favourites_count", "integer", "How many favourites this status has received"),
        PropertyInfo("replies_count", "integer", "How many replies this status has received"),
        [PropertyInfo("url", "string", "A link to the status's HTML representation") EXCEPT !.format = PyStr("uri"), !.nullable = PyBool(TRUE)],
        [PropertyInfo("in_reply_to_id", "string", "ID of the status being replied to") EXCEPT !.nullable = PyBool(TRUE)],
        [PropertyInfo("in_reply_to_account_id", "string", "ID of the account being replied to") EXCEPT !.nullable = PyBool(TRUE)],
        [PropertyInfo("reblog", "object", "The status being reblogged") EXCEPT !.nullable = PyBool(TRUE)],
        [PropertyInfo("poll", "object", "The poll attached to the status") EXCEPT !.nullable = PyBool(TRUE)],
        [PropertyInfo("card", "object", "Preview card for links included within status content") EXCEPT !.nullable = PyBool(TRUE)],
        [PropertyInfo("language", "string", "Primary language of this status") EXCEPT !.nullable = PyBool(TRUE)],
        [PropertyInfo("text", "string", "Plain-text source of a status") EXCEPT !.nullable = PyBool(TRUE)],
        [PropertyInfo("edited_at", "string", "Timestamp of when the status was last edited") EXCEPT !.format = PyStr("date-time"), !.nullable = PyBool(TRUE)]>>]

\* lines 160-173
sample_media ==
    [EntityInfo("MediaAttachment", PyStr("Represents a file or media attachment that can be added to a status.")) EXCEPT !.properties =
        <<
        PropertyInfo("id", "string", "The ID of the attachment in the database"),
        PropertyInfo("type", "string", "The type of the attachment"),
        [PropertyInfo("url", "string", "The location of the original full-size attachment") EXCEPT !.format = PyStr("uri")],
        [PropertyInfo("preview_url", "string", "The location of a scaled-down preview of the attachment") EXCEPT !.format = PyStr("uri")],
        [PropertyInfo("remote_url", "string", "The location of the full-size original attachment on the remote website") EXCEPT !.format = PyStr("uri"), !.nullable = PyBool(TRUE)],
        [PropertyInfo("description", "string", "Alternate text that describes what is in the media attachment") EXCEPT !.nullable = PyBool(TRUE)],
        [PropertyInfo("blurhash", "string", "A hash computed by the BlurHash algorithm") EXCEPT !.nullable = PyBool(TRUE)],
        [PropertyInfo("meta", "object", "Metadata returned by Paperclip") EXCEPT !.required = PyBool(FALSE)]>>]

\* lines 177-184
sample_error ==
    [EntityInfo("Error", PyStr("Represents an error.")) EXCEPT !.properties =
        <<
        PropertyInfo("error", "string", "The error message"),
        [PropertyInfo("error_description", "string", "A longer description of the error") EXCEPT !.required = PyBool(FALSE)]>>]

\* generate_comprehensive_openapi.py, create_comprehensive_entities: the five entities written out
\* lines 64-96
comprehensive_account ==
    [EntityInfo("Account", PyStr("Represents a user of Mastodon and their associated profile.")) EXCEPT !.properties =
        <<
        PropertyInfo("id", "string", "The account id"),
        PropertyInfo("username", "string", "The username of the account, not including domain"),
        PropertyInfo("acct", "string", "The Webfinger account URI. Equal to username for local users, or username@domain for remote users"),
        PropertyInfo("display_name", "string", "The profile's display name"),
        PropertyInfo("locked", "boolean", "Whether the account manually approves follow requests"),
        PropertyInfo("bot", "boolean", "Whether the account may perform automated actions"),
        [PropertyInfo("discoverable", "boolean", "Whether the account has opted into discovery features") EXCEPT !.required = PyBool(FALSE), !.nullable = PyBool(TRUE)],
        [PropertyInfo("group", "boolean", "Whether the account represents a Group actor") EXCEPT !.required = PyBool(FALSE)],
        [PropertyInfo("created_at", "string", "When the account was created") EXCEPT !.format = PyStr("date-time")],
        PropertyInfo("note", "string", "The profile's bio / description"),
        [PropertyInfo("url", "string", "The location of the user's profile page") EXCEPT !.format = PyStr("uri")],
        [PropertyInfo("uri", "string", "The user's ActivityPub actor identifier") EXCEPT !.format = PyStr("uri"), !.required = PyBool(FALSE)],
        [PropertyInfo("avatar", "string", "An image icon that is shown next to statuses and in the profile") EXCEPT !.format = PyStr("uri")],
        [PropertyInfo("avatar_static", "string", "A static version of the avatar") EXCEPT !.format = PyStr("uri")],
        [PropertyInfo("header", "string", "An image banner that is shown above the profile") EXCEPT !.format = PyStr("uri")],
        [PropertyInfo("header_static", "string", "A static version of the header") EXCEPT !.format = PyStr("uri")],
        PropertyInfo("followers_count", "integer", "The reported followers of this profile"),
        PropertyInfo("following_count", "integer", "The reported follows of this profile"),
        PropertyInfo("statuses_count", "integer", "How many statuses are attached to this account"),
        [PropertyInfo("last_status_at", "string", "When the most recent status was posted") EXCEPT !.format = PyStr("date"), !.nullable = PyBool(TRUE)],
        [PropertyInfo("noindex", "boolean", "Whether the local user has opted out of being indexed by search engines") EXCEPT !.required = PyBool(FALSE), !.nullable = PyBool(TRUE)],
        [PropertyInfo("emojis", "array", "Custom emoji entities to be used when rendering the profile") EXCEPT !.items_ref = PyStr("CustomEmoji")],
        [PropertyInfo("fields", "array", "Additional metadata attached to a profile as name-value pairs") EXCEPT !.items_ref = PyStr("Field")],
        [PropertyInfo("moved", "object", "Indicates that the profile is currently inactive and that its user has moved to a new account") EXCEPT !.nullable = PyBool(TRUE), !.required = PyBool(FALSE)],
        [PropertyInfo("suspended", "boolean", "An extra attribute returned only when an account is suspended") EXCEPT !.required = PyBool(FALSE)],
        [PropertyInfo("limited", "boolean", "An extra attribute returned only when an account is silenced") EXCEPT !.required = PyBool(FALSE)],
        [PropertyInfo("hide_collections", "boolean", "Whether the user hides the contents of their follows and followers collections") EXCEPT !.required = PyBool(FALSE)]>>]

\* lines 100-107
comprehensive_cred_account ==
    [EntityInfo("CredentialAccount", PyStr("Represents the current user's account with additional private information.")) EXCEPT !.properties =
        comprehensive_account.properties \o <<
        [PropertyInfo("source", "object", "An extra attribute that contains source values to be used with API methods") EXCEPT !.required = PyBool(FALSE)],
        [PropertyInfo("role", "object", "The role assigned to the currently authorized user") EXCEPT !.required = PyBool(FALSE)]>>]

\* lines 111-146
comprehensive_status ==
    [EntityInfo("Status", PyStr("Represents a status posted by an account.")) EXCEPT !.properties =
        <<
        PropertyInfo("id", "string", "ID of the status in the database"),
        [PropertyInfo("uri", "string", "URI of the status used for federation") EXCEPT !.format = PyStr("uri")],
        [PropertyInfo("created_at", "string", "The date when this status was created") EXCEPT !.format = PyStr("date-time")],
        PropertyInfo("account", "object", "The account that authored this status"),
        PropertyInfo("content", "string", "HTML-encoded status content"),
        PropertyInfo("visibility", "string", "Visibility of this status"),
        PropertyInfo("sensitive", "boolean", "Is this status marked as sensitive content?"),
        PropertyInfo("spoiler_text", "string", "Subject or summary line, below which status content is collapsed"),
        [PropertyInfo("media_attachments", "array", "Media that is attached to this status") EXCEPT !.items_ref = PyStr("MediaAttachment")],
        [PropertyInfo("application", "object", "The application used to post this status") EXCEPT !.nullable = PyBool(TRUE)],
        [PropertyInfo("mentions", "array", "Mentions of users within the status content") EXCEPT !.items_ref = PyStr("Mention")],
        [PropertyInfo("tags", "array", "Hashtags used within the status content") EXCEPT !.items_ref = PyStr("Tag")],
        [PropertyInfo("emojis", "array", "Custom emoji to be used when rendering status content") EXCEPT !.items_ref = PyStr("CustomEmoji")],
        PropertyInfo("reblogs_count", "integer", "How many boosts this status has received"),
        PropertyInfo("favourites_count", "integer", "How many favourites this status has received"),
        PropertyInfo("replies_count", "integer", "How many replies this status has received"),
        [PropertyInfo("url", "string", "A link to the status's HTML representation") EXCEPT !.format = PyStr("uri"), !.nullable = PyBool(TRUE)],
        [PropertyInfo("in_reply_to_id", "string", "ID of the status being replied to") EXCEPT !.nullable = PyBool(TRUE)],
        [PropertyInfo("in_reply_to_account_id", "string", "ID of the account being replied to") EXCEPT !.nullable = PyBool(TRUE)],
        [PropertyInfo("reblog", "object", "The status being reblogged") EXCEPT !.nullable = PyBool(TRUE)],
        [PropertyInfo("poll", "object", "The poll attached to the status") EXCEPT !.nullable = PyBool(TRUE)],
        [PropertyInfo("card", "object", "Preview card for links included within status content") EXCEPT !.nullable = PyBool(TRUE)],
        [PropertyInfo("language", "string", "Primary language of this status") EXCEPT !.nullable = PyBool(TRUE)],
        [PropertyInfo("text", "string", "Plain-text source of a status") EXCEPT !.nullable = PyBool(TRUE)],
        [PropertyInfo("edited_at", "string", "Timestamp of when the status was last edited") EXCEPT !.format = PyStr("date-time"), !.nullable = PyBool(TRUE)],
        [PropertyInfo("favourited", "boolean", "Have you favourited this status?") EXCEPT !.required = PyBool(FALSE)],
        [PropertyInfo("reblogged", "boolean", "Have you boosted this status?") EXCEPT !.required = PyBool(FALSE)],
        [PropertyInfo("muted", "boolean", "Have you muted notifications for this status's conversation?") EXCEPT !.required = PyBool(FALSE)],
        [PropertyInfo("bookmarked", "boolean", "Have you bookmarked this status?") EXCEPT !.required = PyBool(FALSE)],
        [PropertyInfo("pinned", "boolean", "Have you pinned this status?") EXCEPT !.required = PyBool(FALSE)]>>]

\* lines 150-163
comprehensive_media ==
    [EntityInfo("MediaAttachment", PyStr("Represents a file or media attachment that can be added to a status.")) EXCEPT !.properties =
        <<
        PropertyInfo("id", "string", "The ID of the attachment in the database"),
        PropertyInfo("type", "string", "The type of the attachment"),
        [PropertyInfo("url", "string", "The location of the original full-size attachment") EXCEPT !.format = PyStr("uri")],
        [PropertyInfo("preview_url", "string", "The location of a scaled-down preview of the attachment") EXCEPT !.format = PyStr("uri")],
        [PropertyInfo("remote_url", "string", "The location of the full-size original attachment on the remote website") EXCEPT !.format = PyStr("uri"), !.nullable = PyBool(TRUE)],
        PropertyInfo("meta", "object", "Metadata returned by Paperclip"),
        [PropertyInfo("description", "string", "Alternate text that describes what is in the media attachment") EXCEPT !.nullable = PyBool(TRUE)],
        [PropertyInfo("blurhash", "string", "A hash computed by the BlurHash algorithm") EXCEPT !.nullable = PyBool(TRUE)]>>]

\* lines 167-179
comprehensive_notification ==
    [EntityInfo("Notification", PyStr("Represents a notification of an event relevant to the user.")) EXCEPT !.properties =
        <<
        PropertyInfo("id", "string", "The id of the notification in the database"),
        PropertyInfo("type", "string", "The type of event that resulted in the notification"),
        [PropertyInfo("created_at", "string", "The timestamp of the notification") EXCEPT !.format = PyStr("date-time")],
        PropertyInfo("account", "object", "The account that performed the action that generated the notification"),
        [PropertyInfo("status", "object", "Status that was the object of the notification") EXCEPT !.nullable = PyBool(TRUE)],
        [PropertyInfo("report", "object", "Report that was the object of the notification") EXCEPT !.nullable = PyBool(TRUE), !.required = PyBool(FALSE)],
        [PropertyInfo("relationship_severance_event", "object", "Summary of the event that caused follow relationships to be severed") EXCEPT !.nullable = PyBool(TRUE), !.required = PyBool(FALSE)]>>]

\* lines 183-267: a row is (name, type, description) and up to two more values
entities_data ==
    <<
        <<"CustomEmoji", "Represents a custom emoji.", <<
            <<"shortcode", "string", "The name of the custom emoji">>,
            <<"url", "string", "A link to the custom emoji", PyStr("uri")>>,
            <<"static_url", "string", "A link to a static copy of the custom emoji", PyStr("uri")>>,
            <<"visible_in_picker", "boolean", "Whether this Emoji should be visible in the picker or unlisted">>,
            <<"category", "string", "Used for sorting custom emoji in the picker", PyBool(TRUE)>>>>>>,
        <<"Field", "Represents a profile field as a name-value pair with optional verification.", <<
            <<"name", "string", "The key of a given field's key-value pair">>,
            <<"value", "string", "The value associated with the name key">>,
            <<"verified_at", "string", "Timestamp of when the server verified a URL value for a rel=\"me\" link", PyStr("date-time"), PyBool(TRUE)>>>>>>,
        <<"Mention", "Represents a mention of a user within the status content.", <<
            <<"id", "string", "The account id of the mentioned user">>,
            <<"username", "string", "The username of the mentioned user">>,
            <<"url", "string", "The location of the mentioned user's profile", PyStr("uri")>>,
            <<"acct", "string", "The webfinger acct: URI of the mentioned user">>>>>>,
        <<"Tag", "Represents a hashtag used within the status content.", <<
            <<"name", "string", "The value of the hashtag after the # sign">>,
            <<"url", "string", "A link to the hashtag on the instance", PyStr("uri")>>,
            <<"history", "array", "Usage statistics for given days", PyBool(FALSE), PyStr("TagHistory")>>,
            <<"following", "boolean", "Whether the current token's authorized user is following this tag", PyBool(FALSE)>>>>>>,
        <<"Poll", "Represents a poll attached to a status.", <<
            <<"id", "string", "The ID of the poll in the database">>,
            <<"expires_at", "string", "When the poll ends", PyStr("date-time"), PyBool(TRUE)>>,
            <<"expired", "boolean", "Is the poll currently expired?">>,
            <<"multiple", "boolean", "Does the poll allow multiple-choice answers?">>,
            <<"votes_count", "integer", "How many votes have been received">>,
            <<"voters_count", "integer", "How many unique accounts have voted on a multiple-choice poll", PyBool(TRUE)>>,
            <<"options", "array", "Possible answers for the poll", PyBool(FALSE), PyStr("PollOption")>>,
            <<"emojis", "array", "Custom emoji to be used for rendering poll options", PyBool(FALSE), PyStr("CustomEmoji")>>,
            <<"voted", "boolean", "When called with a user token, has the authorized user voted?", PyBool(FALSE)>>,
            <<"own_votes", "array", "When called with a user token, which options has the authorized user chosen?", PyBool(FALSE)>>>>>>,
        <<"PollOption", "Represents a poll choice.", <<
            <<"title", "string", "The text value of the poll option">>,
            <<"votes_count", "integer", "The number of received votes for this option", PyBool(TRUE)>>>>>>,
        <<"Application", "Represents an application that interfaces with the REST API to access accounts or post statuses.", <<
            <<"name", "string", "The name of your application">>,
            <<"website", "string", "The website associated with your application", PyStr("uri"), PyBool(TRUE)>>,
            <<"vapid_key", "string", "Used for Push Streaming API", PyBool(FALSE)>>>>>>,
        <<"Token", "Represents an OAuth token used for authenticating with the API and performing actions.", <<
            <<"access_token", "string", "An OAuth token to be used for authorization">>,
            <<"token_type", "string", "The OAuth token type">>,
            <<"scope", "string", "The OAuth scopes granted by this token">>,
            <<"created_at", "integer", "When the token was generated">>>>>>,
        <<"Instance", "Represents the software instance of Mastodon running on this domain.", <<
            <<"uri", "string", "The domain name of the instance">>,
            <<"title", "string", "The title of the website">>,
            <<"short_description", "string", "A shorter description defined by the admin">>,
            <<"description", "string", "A description for the instance">>,
            <<"email", "string", "An email that may be contacted for any inquiries">>,
            <<"version", "string", "The version of Mastodon installed on the instance">>,
            <<"urls", "object", "URLs of interest for clients apps">>,
            <<"stats", "object", "Statistics about how much information the instance contains">>,
            <<"thumbnail", "string", "Banner image for the instance", PyStr("uri"), PyBool(TRUE)>>,
            <<"languages", "array", "Primary languages of the website and its staff">>,
            <<"registrations", "boolean", "Whether registrations are enabled">>,
            <<"approval_required", "boolean", "Whether registrations require moderator approval">>,
            <<"invites_enabled", "boolean", "Whether invites are enabled">>,
            <<"configuration", "object", "Configured values and limits for this website">>,
            <<"contact_account", "object", "A user that can be contacted regarding the instance", PyBool(TRUE)>>,
            <<"rules", "array", "An itemized list of rules for this website", PyBool(FALSE), PyStr("Rule")>>>>>>,
        <<"Error", "Represents an error.", <<
            <<"error", "string", "The error message">>,
            <<"error_description", "string", "A longer description of the error", PyBool(FALSE)>>>>>>,
        <<"Context", "Represents the tree around a given status.", <<
            <<"ancestors", "array", "Parents in the thread", PyBool(FALSE), PyStr("Status")>>,
            <<"descendants", "array", "Children in the thread", PyBool(FALSE), PyStr("Status")>>>>>>,
        <<"Conversation", "Represents a conversation with \"direct message\" visibility.", <<
            <<"id", "string", "Local database ID of the conversation">>,
            <<"unread", "boolean", "Is the conversation currently marked as unread?">>,
            <<"accounts", "array", "Participants in the conversation", PyBool(FALSE), PyStr("Account")>>,
            <<"last_status", "object", "The last status in the conversation", PyBool(TRUE)>>>>>>>>

\* lines 292-395: the items of the dict, (tag, endpoints), in order
endpoint_groups ==
    <<
        <<"accounts", <<
            <<"GET", "/api/v1/accounts/{id}", "View account", "View information about a profile">>,
            <<"GET", "/api/v1/accounts/verify_credentials", "Verify credentials", "Test to make sure that the user token works">>,
            <<"PATCH", "/api/v1/accounts/update_credentials", "Update credentials", "Update the user's display and preferences">>,
            <<"GET", "/api/v1/accounts/{id}/statuses", "Get account statuses", "Statuses posted to the given account">>,
            <<"GET", "/api/v1/accounts/{id}/followers", "Get account followers", "Accounts which follow the given account">>,
            <<"GET", "/api/v1/accounts/{id}/following", "Get account following", "Accounts which the given account is following">>,
            <<"POST", "/api/v1/accounts/{id}/follow", "Follow account", "Follow the given account">>,
            <<"POST", "/api/v1/accounts/{id}/unfollow", "Unfollow account", "Unfollow the given account">>,
            <<"POST", "/api/v1/accounts/{id}/block", "Block account", "Block the given account">>,
            <<"POST", "/api/v1/accounts/{id}/unblock", "Unblock account", "Unblock the given account">>,
            <<"POST", "/api/v1/accounts/{id}/mute", "Mute account", "Mute the given account">>,
            <<"POST", "/api/v1/accounts/{id}/unmute", "Unmute account", "Unmute the given account">>,
            <<"GET", "/api/v1/accounts/relationships", "Check relationships", "Find out whether a given account is followed, blocked, muted, etc.">>,
            <<"GET", "/api/v1/accounts/search", "Search accounts", "Search for matching accounts by username or display name">>>>>>,
        <<"statuses", <<
            <<"GET", "/api/v1/statuses/{id}", "View status", "View information about a status">>,
            <<"POST", "/api/v1/statuses", "Publish status", "Post a new status">>,
            <<"DELETE", "/api/v1/statuses/{id}", "Delete status", "Delete one of your own statuses">>,
            <<"GET", "/api/v1/statuses/{id}/context", "Get status context", "View statuses above and below this status in the thread">>,
            <<"POST", "/api/v1/statuses/{id}/reblog", "Boost status", "Reshare a status">>,
            <<"POST", "/api/v1/statuses/{id}/unreblog", "Undo boost", "Undo a reshare of a status">>,
            <<"POST", "/api/v1/statuses/{id}/favourite", "Favourite status", "Add a status to your favourites list">>,
            <<"POST", "/api/v1/statuses/{id}/unfavourite", "Undo favourite", "Remove a status from your favourites list">>,
            <<"POST", "/api/v1/statuses/{id}/bookmark", "Bookmark status", "Privately bookmark a status">>,
            <<"POST", "/api/v1/statuses/{id}/unbookmark", "Undo bookmark", "Remove a status from your private bookmarks">>,
            <<"POST", "/api/v1/statuses/{id}/mute", "Mute conversation", "Do not receive notifications for the thread">>,
            <<"POST", "/api/v1/statuses/{id}/unmute", "Unmute conversation", "Start receiving notifications for the thread again">>,
            <<"POST", "/api/v1/statuses/{id}/pin", "Pin status", "Pin status to the top of your profile">>,
            <<"POST", "/api/v1/statuses/{id}/unpin", "Unpin status", "Unpin a status from the top of your profile">>,
            <<"PUT", "/api/v1/statuses/{id}", "Edit status", "Change the content of a status that has already been published">>,
            <<"GET", "/api/v1/statuses/{id}/history", "Get status edit history", "Get all known versions of a status in reverse chronological order">>,
            <<"GET", "/api/v1/statuses/{id}/source", "Get status source", "Obtain the source properties for a status">>>>>>,
        <<"timelines", <<
            <<"GET", "/api/v1/timelines/home", "Home timeline", "View statuses from followed users">>,
            <<"GET", "/api/v1/timelines/public", "Public timeline", "Public timeline">>,
            <<"GET", "/api/v1/timelines/tag/{hashtag}", "Hashtag timeline", "View public statuses containing the given hashtag">>,
            <<"GET", "/api/v1/timelines/list/{list_id}", "List timeline", "View statuses in the given list timeline">>>>>>,
        <<"notifications", <<
            <<"GET", "/api/v1/notifications", "Get notifications", "Receive notifications for the current user">>,
            <<"GET", "/api/v1/notifications/{id}", "Get single notification", "View information about a notification with a given ID">>,
            <<"POST", "/api/v1/notifications/clear", "Dismiss all notifications", "Clear all notifications from the server">>,
            <<"POST", "/api/v1/notifications/{id}/dismiss", "Dismiss single notification", "Clear a single notification from the server">>>>>>,
        <<"search", <<
            <<"GET", "/api/v2/search", "Search", "Search for content in accounts, statuses and hashtags">>>>>>,
        <<"instance", <<
            <<"GET", "/api/v1/instance", "View server information", "Information about the server">>,
            <<"GET", "/api/v1/instance/peers", "List of connected domains", "Domains that this instance is aware of">>,
            <<"GET", "/api/v1/instance/activity", "Weekly activity", "Instance activity over the last 3 months">>,
            <<"GET", "/api/v1/instance/rules", "View server rules", "Rules that the users of this service should follow">>,
            <<"GET", "/api/v1/instance/domain_blocks", "View domain blocks", "Obtain a list of domains that have been blocked">>,
            <<"GET", "/api/v1/instance/extended_description", "View extended description", "Obtain an extended description of this server">>>>>>,
        <<"apps", <<
            <<"POST", "/api/v1/apps", "Create an application", "Create a new application to obtain OAuth2 credentials">>,
            <<"GET", "/api/v1/apps/verify_credentials", "Verify your app works", "Confirm that the app's OAuth2 credentials work">>>>>>,
        <<"oauth", <<
            <<"POST", "/oauth/token", "Obtain a token", "Obtain an access token">>,
            <<"POST", "/oauth/revoke", "Revoke a token", "Revoke an access token">>>>>>,
        <<"media", <<
            <<"POST", "/api/v1/media", "Upload media attachment", "Creates an attachment to be used with a new status">>,
            <<"GET", "/api/v1/media/{id}", "Get media attachment", "Get a media attachment">>,
            <<"PUT", "/api/v1/media/{id}", "Update media attachment", "Update a MediaAttachment's parameters">>>>>>,
        <<"polls", <<
            <<"GET", "/api/v1/polls/{id}", "View a poll", "View a poll">>,
            <<"POST", "/api/v1/polls/{id}/votes", "Vote on a poll", "Submit a vote to a poll">>>>>>,
        <<"lists", <<
            <<"GET", "/api/v1/lists", "View your lists", "Fetch all lists that the user owns">>,
            <<"GET", "/api/v1/lists/{id}", "View a single list", "Fetch the list with the given ID">>,
            <<"POST", "/api/v1/lists", "Create a list", "Create a new list">>,
            <<"PUT", "/api/v1/lists/{id}", "Update a list", "Change the title of a list">>,
            <<"DELETE", "/api/v1/lists/{id}", "Delete a list", "Delete a list">>,
            <<"GET", "/api/v1/lists/{id}/accounts", "View accounts in list", "View accounts in the given list">>,
            <<"POST", "/api/v1/lists/{id}/accounts", "Add accounts to list", "Add accounts to the given list">>,
            <<"DELETE", "/api/v1/lists/{id}/accounts", "Remove accounts from list", "Remove accounts from the given list">>>>>>,
        <<"follow_requests", <<
            <<"GET", "/api/v1/follow_requests", "View pending follow requests", "Pending follow requests">>,
            <<"POST", "/api/v1/follow_requests/{account_id}/authorize", "Accept follow request", "Accept a follow request">>,
            <<"POST", "/api/v1/follow_requests/{account_id}/reject", "Reject follow request", "Reject a follow request">>>>>>,
        <<"blocks", <<
            <<"GET", "/api/v1/blocks", "View blocked users", "View your blocks">>>>>>,
        <<"mutes", <<
            <<"GET", "/api/v1/mutes", "View muted users", "View your mutes">>>>>>,
        <<"favourites", <<
            <<"GET", "/api/v1/favourites", "View favourited statuses", "Statuses the user has favourited">>>>>>,
        <<"bookmarks", <<
            <<"GET", "/api/v1/bookmarks", "View bookmarked statuses", "Statuses the user has bookmarked">>>>>>>>

\* lines 476-518
success_responses ==
    PyDict(<<
        Entry("accounts", PyDict(<<
            Entry("verify_credentials", PyStr("CredentialAccount")),
            Entry("update_credentials", PyStr("CredentialAccount")),
            Entry("{id}", PyStr("Account")),
            Entry("search", PyStr("Account")),
            Entry("relationships", PyStr("Relationship"))>>)),
        Entry("statuses", PyDict(<<
            Entry("{id}", PyStr("Status")),
            Entry("", PyStr("Status")),
            Entry("context", PyStr("Context")),
            Entry("history", PyStr("StatusEdit")),
            Entry("source", PyStr("StatusSource"))>>)),
        Entry("notifications", PyDict(<<
            Entry("", PyStr("Notification")),
            Entry("{id}", PyStr("Notification"))>>)),
        Entry("instance", PyDict(<<
            Entry("", PyStr("Instance")),
            Entry("rules", PyStr("Rule")),
            Entry("activity", PyStr("Activity"))>>)),
        Entry("media", PyDict(<<
            Entry("", PyStr("MediaAttachment")),
            Entry("{id}", PyStr("MediaAttachment"))>>)),
        Entry("polls", PyDict(<<
            Entry("{id}", PyStr("Poll")),
            Entry("votes", PyStr("Poll"))>>)),
        Entry("apps", PyDict(<<
            Entry("", PyStr("Application")),
            Entry("verify_credentials", PyStr("Application"))>>)),
        Entry("oauth", PyDict(<<
            Entry("token", PyStr("Token"))>>)),
        Entry("search", PyDict(<<
            Entry("", PyStr("Search"))>>))>>)

\* generate_sample_openapi.py lines 222-227
sample_pagination ==
    <<
        [ParameterInfo("max_id", "string", "Return results older than this ID") EXCEPT !.required = PyBool(FALSE)],
        [ParameterInfo("since_id", "string", "Return results newer than this ID") EXCEPT !.required = PyBool(FALSE)],
        [ParameterInfo("min_id", "string", "Return results immediately newer than this ID") EXCEPT !.required = PyBool(FALSE)],
        [ParameterInfo("limit", "integer", "Maximum number of results to return") EXCEPT !.required = PyBool(FALSE)]>>

\* generate_comprehensive_openapi.py lines 443-448
comprehensive_pagination ==
    <<
        [ParameterInfo("max_id", "string", "Return results older than this ID") EXCEPT !.required = PyBool(FALSE)],
        [ParameterInfo("since_id", "string", "Return results newer than this ID") EXCEPT !.required = PyBool(FALSE)],
        [ParameterInfo("min_id", "string", "Return results immediately newer than this ID") EXCEPT !.required = PyBool(FALSE)],
        [ParameterInfo("limit", "integer", "Maximum number of results to return. Defaults to 20") EXCEPT !.required = PyBool(FALSE)]>>

\* generate_comprehensive_openapi.py lines 452-460
update_credentials_parameters ==
    <<
        [ParameterInfo("display_name", "string", "The display name to use for the profile") EXCEPT !.required = PyBool(FALSE)],
        [ParameterInfo("note", "string", "The account bio") EXCEPT !.required = PyBool(FALSE)],
        [ParameterInfo("avatar", "string", "Avatar image encoded using multipart/form-data") EXCEPT !.required = PyBool(FALSE)],
        [ParameterInfo("header", "string", "Header image encoded using multipart/form-data") EXCEPT !.required = PyBool(FALSE)],
        [ParameterInfo("locked", "boolean", "Whether manual approval of follow requests is required") EXCEPT !.required = PyBool(FALSE)],
        [ParameterInfo("bot", "boolean", "Whether the account is a bot") EXCEPT !.required = PyBool(FALSE)],
        [ParameterInfo("discoverable", "boolean", "Whether the account should be shown in the profile directory") EXCEPT !.required = PyBool(FALSE)]>>

\* generate_comprehensive_openapi.py lines 463-473
post_status_parameters ==
    <<
        [ParameterInfo("status", "string", "Text content of the status") EXCEPT !.required = PyBool(FALSE)],
        [ParameterInfo("media_ids", "array", "Array of attachment ids to be attached as media") EXCEPT !.required = PyBool(FALSE)],
        [ParameterInfo("poll", "object", "Poll to be attached") EXCEPT !.required = PyBool(FALSE)],
        [ParameterInfo("in_reply_to_id", "string", "ID of the status being replied to") EXCEPT !.required = PyBool(FALSE)],
        [ParameterInfo("sensitive", "boolean", "Mark status and attached media as sensitive?") EXCEPT !.required = PyBool(FALSE)],
        [ParameterInfo("spoiler_text", "string", "Text to be shown as a warning or subject before the actual content") EXCEPT !.required = PyBool(FALSE)],
        [ParameterInfo("visibility", "string", "Visibility of the posted status") EXCEPT !.required = PyBool(FALSE)],
        [ParameterInfo("language", "string", "ISO 639 language code for this status") EXCEPT !.required = PyBool(FALSE)],
        [ParameterInfo("scheduled_at", "string", "ISO 8601 Datetime at which to schedule a status") EXCEPT !.required = PyBool(FALSE)]>>

\* self.entities[entity.name] = entity for each entity of a sequence
PutEntities(entities, new) ==
    Assign(entities, [i \in 1..Len(new) |-> new[i].name], new)

\* generate_sample_openapi.py lines 187-196: the entity of one turn of the loop
BasicEntity(entity_name) ==
    [EntityInfo(entity_name, PyStr("Represents a " \o Lower(entity_name) \o "."))
        EXCEPT !.properties =
            <<PropertyInfo("id", "string", "The " \o Lower(entity_name) \o " id")>>]

\* lines 92-185 alone: the four entities written out, without the loop of
\* lines 187-196
CreateDetailedEntities(self) ==
    [self EXCEPT !.entities =
        PutEntities(@, <<sample_account, sample_status, sample_media, sample_error>>)]

\* generate_sample_openapi.py lines 92-196
create_sample_entities(self) ==
    LET basic == <<"CustomEmoji", "Field", "Notification", "Poll", "Tag",
                   "Application", "Token">>
    IN  [self EXCEPT !.entities =
            PutEntities(@, <<sample_account, sample_status, sample_media, sample_error>>
                           \o [i \in 1..Len(basic) |-> BasicEntity(basic[i])])]

\* the three error responses every endpoint of the hardcoded generators ends with
ErrorResponses ==
    <<ResponseInfo("401", "Unauthorized", PyStr("Error")),
      ResponseInfo("404", "Not found", PyStr("Error")),
      ResponseInfo("422", "Unprocessable entity", PyStr("Error"))>>

\* ParameterInfo(name=..., type="string", description=..., required=True, location="path")
PathParameter(name, description) ==
    [ParameterInfo(name, "string", description)
        EXCEPT !.required = PyBool(TRUE), !.location = PyStr("path")]

\* generate_sample_openapi.py lines 201-256: the endpoint of one row
SampleEndpoint(row) ==
    LET tag         == row[1]
        method      == row[2]
        path        == row[3]
        summary     == row[4]
        description == row[5]
        id_params   == IF Contains(path, ":id")
                       THEN <<PathParameter("id", "The ID of the resource")>>
                       ELSE <<>>
        page_params == IF /\ method = "GET"
                          /\ Contains(path, "timeline") \/ Contains(path, "notifications")
                       THEN sample_pagination
                       ELSE <<>>
        success     ==
            CASE method \in {"GET"} ->
                    <<ResponseInfo("200", "Success",
                        IF Contains(path, "accounts") /\ Contains(path, ":id")
                        THEN PyStr("Account")
                        ELSE IF Contains(path, "statuses") /\ Contains(path, ":id")
                        THEN PyStr("Status")
                        ELSE PyNone)>>
              [] method \in {"POST", "PATCH"} ->
                    <<ResponseInfo("200", "Success",
                        IF Contains(path, "accounts") THEN PyStr("Account")
                        ELSE IF Contains(path, "statuses") THEN PyStr("Status")
                        ELSE PyNone)>>
              [] method = "DELETE" -> <<ResponseInfo("200", "Success", PyNone)>>
              [] OTHER -> <<>>
    IN  [EndpointInfo(path, Lower(method), PyStr(summary), PyStr(description),
                      <<PyStr(tag)>>)
            EXCEPT !.parameters = id_params \o page_params,
                   !.responses = success \o ErrorResponses]

\* generate_sample_openapi.py lines 198-256
create_sample_endpoints(self) ==
    [self EXCEPT !.endpoints =
        @ \o [i \in 1..Len(SAMPLE_ENDPOINTS) |-> SampleEndpoint(SAMPLE_ENDPOINTS[i])]]

\* generate_comprehensive_openapi.py lines 272-285: the property of one row
DataProperty(prop_data) ==
    LET prop_format    == IF Len(prop_data) > 3 /\ prop_data[4].t = "str"
                          THEN prop_data[4] ELSE PyNone
        prop_nullable  == IF Len(prop_data) > 3 /\ prop_data[4].t = "bool"
                          THEN prop_data[4] ELSE PyBool(FALSE)
        prop_items_ref == IF Len(prop_data) > 4 THEN prop_data[5] ELSE PyNone
    IN  [PropertyInfo(prop_data[1], prop_data[2], prop_data[3])
            EXCEPT !.format = prop_format,
                   !.nullable = prop_nullable,
                   !.items_ref = prop_items_ref,
                   !.required = PyBool(~Truthy(prop_nullable))]

\* generate_comprehensive_openapi.py lines 269-286: the entity of one row
DataEntity(data) ==
    [EntityInfo(data[1], PyStr(data[2]))
        EXCEPT !.properties = [i \in 1..Len(data[3]) |-> DataProperty(data[3][i])]]

\* generate_comprehensive_openapi.py lines 60-286
create_comprehensive_entities(self) ==
    [self EXCEPT !.entities =
        PutEntities(@, <<comprehensive_account, comprehensive_cred_account,
                         comprehensive_status, comprehensive_media,
                         comprehensive_notification>>
                       \o [i \in 1..Len(entities_data) |-> DataEntity(entities_data[i])])]

\* generate_comprehensive_openapi.py lines 520-527: response_schema
ResponseSchema(tag, path) ==
    IF HasKey(success_responses, PyStr(tag))
    THEN LET parts    == Split(path, "/")
             last     == parts[Len(parts)]
             path_key == IF ~Contains(last, "{") THEN last ELSE "{id}"
             by_key   == GetItem(success_responses, PyStr(tag))
         IN  IF HasKey(by_key, PyStr(path_key)) THEN GetItem(by_key, PyStr(path_key))
             ELSE IF HasKey(by_key, PyStr("")) THEN GetItem(by_key, PyStr(""))
             ELSE PyNone
    ELSE PyNone

\* lines 441-448 without the test of the method
ListParamsOfAnyMethod(method, path) ==
    IF \E x \in {"timeline", "notifications", "statuses", "followers",
                 "following", "blocks", "mutes", "favourites", "bookmarks"} :
           Contains(path, x)
    THEN comprehensive_pagination ELSE <<>>

\* generate_comprehensive_openapi.py lines 441-448: the common query
\* parameters of list endpoints
ListParams(method, path) ==
    IF /\ method = "GET"
       /\ \E x \in {"timeline", "notifications", "statuses", "followers",
                    "following", "blocks", "mutes", "favourites", "bookmarks"} :
              Contains(path, x)
    THEN comprehensive_pagination ELSE <<>>

\* generate_comprehensive_openapi.py lines 398-550: the endpoint of one row of a group
ComprehensiveEndpoint(tag, row) ==
    LET method      == row[1]
        path        == row[2]
        summary     == row[3]
        description == row[4]
        path_params ==
            (IF Contains(path, "{id}")
             THEN <<PathParameter("id", "The ID of the resource")>> ELSE <<>>)
            \o (IF Contains(path, "{account_id}")
                THEN <<PathParameter("account_id", "The ID of the Account in the database")>>
                ELSE <<>>)
            \o (IF Contains(path, "{hashtag}")
                THEN <<PathParameter("hashtag", "The name of the hashtag")>> ELSE <<>>)
            \o (IF Contains(path, "{list_id}")
                THEN <<PathParameter("list_id", "The ID of the List in the database")>>
                ELSE <<>>)
        list_params == ListParams(method, path)
        credentials_params ==
            IF Contains(path, "update_credentials")
            THEN update_credentials_parameters ELSE <<>>
        status_params ==
            IF path = "/api/v1/statuses" /\ method = "POST"
            THEN post_status_parameters ELSE <<>>
        response_schema == ResponseSchema(tag, path)
        success ==
            CASE method = "GET" ->
                    IF \E x \in {"timeline", "followers", "following", "statuses"} :
                           Contains(path, x)
                    THEN <<ResponseInfo("200", "Success", PyNone)>>
                    ELSE <<ResponseInfo("200", "Success", response_schema)>>
              [] method \in {"POST", "PUT", "PATCH"} ->
                    IF \/ Contains(path, "clear") \/ Contains(path, "dismiss")
                       \/ Contains(path, "authorize") \/ Contains(path, "reject")
                    THEN <<ResponseInfo("200", "Success", PyNone)>>
                    ELSE <<ResponseInfo("200", "Success", response_schema)>>
              [] method = "DELETE" -> <<ResponseInfo("200", "Success", PyNone)>>
              [] OTHER -> <<>>
    IN  [EndpointInfo(path, Lower(method), PyStr(summary), PyStr(description),
                      <<PyStr(tag)>>)
            EXCEPT !.parameters = path_params \o list_params \o credentials_params
                                  \o status_params,
                   !.responses = success \o ErrorResponses]

\* for tag, endpoints in endpoint_groups.items(): for ... in endpoints
RECURSIVE GroupEndpoints(_)
GroupEndpoints(groups) ==
    IF groups = <<>> THEN <<>>
    ELSE LET tag  == Head(groups)[1]
             rows == Head(groups)[2]
         IN  [i \in 1..Len(rows) |-> ComprehensiveEndpoint(tag, rows[i])]
             \o GroupEndpoints(Tail(groups))

\* generate_comprehensive_openapi.py lines 288-550
create_comprehensive_endpoints(self) ==
    [self EXCEPT !.endpoints = @ \o GroupEndpoints(endpoint_groups)]

(***************************************************************************)
(* generate_openapi.py: scraping the documentation repository. api is what *)
(* the GitHub API answers: path -> [ok, json]; a path outside its domain   *)
(* gets no answer. The texts are ASCII.                                    *)
(***************************************************************************)
METHODS_PATH == "content/en/methods"

ENTITIES_PATH == "content/en/entities"

\* requests.get raised, the status was an error, or the body was no JSON
NoAnswer == [ok |-> FALSE, json |-> PyNone]

Answer(json) == [ok |-> TRUE, json |-> json]

\* requests.get(url); response.raise_for_status(); response.json()
ApiGet(api, path) == IF path \in DOMAIN api THEN api[path] ELSE NoAnswer

B64Alphabet == "ABCDEFGHIJKLMNOPQRSTUVWXYZabcdefghijklmnopqrstuvwxyz0123456789+/"

\* the value of each character of the alphabet
B64Value == [c \in {CharAt(B64Alphabet, i) : i \in 1..64} |-> Find(B64Alphabet, c, 1) - 1]

\* binascii: the data characters of kept, the characters of the alphabet and
\* the = of s. A = after two data characters of a group of four, when it fills
\* the group, ends the data; without it the groups must be whole.
B64Data(kept) ==
    LET pads   == {i \in 1..Len(kept) : kept[i] = "="}
        before(i) == Cardinality({n \in 1..(i - 1) : n \notin pads})
        ends   == {i \in pads : \/ before(i) % 4 = 3
                                \/ before(i) % 4 = 2 /\ (i - 1) \in pads}
    IN  IF ends # {}
        THEN Ok(SelectSeq(SubSeq(kept, 1, (CHOOSE i \in ends : \A n \in ends : i <= n) - 1),
                          LAMBDA c : c # "="))
        ELSE IF (Len(kept) - Cardinality(pads)) % 4 # 0 THEN Raise("binascii.Error")
        ELSE Ok(SelectSeq(kept, LAMBDA c : c # "="))

\* the bytes of the data characters: three of every four, the last group short
B64Bytes(data) ==
    LET sextet(i) == IF i > Len(data) THEN 0 ELSE B64Value[data[i]]
        group(k)  == sextet(4 * ((k - 1) \div 3) + 1) * 262144
                     + sextet(4 * ((k - 1) \div 3) + 2) * 4096
                     + sextet(4 * ((k - 1) \div 3) + 3) * 64
                     + sextet(4 * ((k - 1) \div 3) + 4)
    IN  [k \in 1..(3 * (Len(data) \div 4)
                   + (IF Len(data) % 4 = 0 THEN 0 ELSE (Len(data) % 4) - 1)) |->
            CASE (k - 1) % 3 = 0 -> group(k) \div 65536
              [] (k - 1) % 3 = 1 -> (group(k) \div 256) % 256
              [] OTHER -> group(k) % 256]

\* bytes.decode("utf-8") of ASCII text
Utf8Decode(bytes) ==
    IF \E k \in 1..Len(bytes) : bytes[k] # 10 /\ (bytes[k] < 32 \/ bytes[k] > 126)
    THEN Raise("UnicodeDecodeError")
    ELSE Ok(Join([k \in 1..Len(bytes) |->
                    IF bytes[k] = 10 THEN "\n" ELSE CharAt(Ascii, bytes[k] - 31)]))

\* b64decode(s).decode("utf-8") once the data characters are known
B64Decoded(data) == IF data.exc # "" THEN data ELSE Utf8Decode(B64Bytes(data.val))

\* line 76: base64.b64decode(s).decode("utf-8"); characters outside the
\* alphabet are skipped
B64Decode(s) ==
    B64Decoded(B64Data(SelectSeq([i \in 1..Len(s) |-> CharAt(s, i)],
                                 LAMBDA c : c = "=" \/ c \in DOMAIN B64Value)))

\* lines 74-77 on the JSON of the answer
FileContent(data, decoded) ==
    IF GetOr(data, PyStr("encoding"), PyNone) # PyStr("base64") THEN PyNone
    ELSE IF decoded.exc # "" THEN PyNone
    ELSE PyStr(decoded.val)

\* b64decode(data["content"]): no such key or no str raises
ContentDecoded(data) ==
    IF ~HasKey(data, PyStr("content")) THEN Raise("KeyError")
    ELSE IF GetItem(data, PyStr("content")).t # "str" THEN Raise("TypeError")
    ELSE B64Decode(GetItem(data, PyStr("content")).v)

\* lines 66-80: the content of a file, None when anything fails
AnswerContent(answer) ==
    IF ~answer.ok \/ answer.json.t # "dict" THEN PyNone
    ELSE FileContent(answer.json, ContentDecoded(answer.json))

fetch_file_content(api, path) == AnswerContent(ApiGet(api, path))

\* lines 82-91: the entries of a directory, [] when anything fails
list_directory(api, path) ==
    IF ApiGet(api, path).ok THEN ApiGet(api, path).json.v ELSE <<>>

Whitespace == {" ", "\n", "\t", "\r"}

\* s.strip()
Strip(s) ==
    LET inked == {i \in 1..Len(s) : CharAt(s, i) \notin Whitespace}
    IN  IF inked = {} THEN ""
        ELSE SubSeq(s, CHOOSE i \in inked : \A j \in inked : i <= j,
                       CHOOSE i \in inked : \A j \in inked : i >= j)

\* the characters that start no plain scalar
YamlMarks ==
    {"@", Backtick, "{", "}", "[", "]", "\"", "'", "%", "&", "*", "!", "|", ">", ",",
     " ", "\t"}

\* a line that is an entry of a block sequence
IsEntry(l) == l = "-" \/ StartsWith(l, "- ")

\* a text that is one plain scalar, or nothing
IsPlain(s) ==
    \/ s = ""
    \/ /\ Head(s) \notin YamlMarks
       /\ ~IsEntry(s)
       /\ Find(s, ": ", 1) = 0
       /\ ~EndsWith(s, ":")
       /\ Find(s, " #", 1) = 0

\* where the colon of a "key: value" line is, 0 when there is none
Colon(l) ==
    IF Find(l, ": ", 1) # 0 THEN Find(l, ": ", 1)
    ELSE IF EndsWith(l, ":") THEN Len(l) ELSE 0

\* yaml.safe_load of the lines of a block: "key: value" lines make a dict,
\* "- value" lines a list, other lines one scalar; any other block is malformed
LoadLines(lines) ==
    LET key(l)    == SubSeq(l, 1, Colon(l) - 1)
        value(l)  == Strip(SubSeq(l, Colon(l) + 1, Len(l)))
        item(l)   == Strip(SubSeq(l, 2, Len(l)))
        scalar(s) == ConstructScalar(Plain(s))
    IN  CASE lines = <<>> -> Ok(PyNone)
          [] \A i \in 1..Len(lines) :
                Colon(lines[i]) > 1 /\ IsPlain(key(lines[i])) /\ IsPlain(value(lines[i])) ->
                Ok(Assign(EmptyDict,
                          [i \in 1..Len(lines) |-> scalar(key(lines[i]))],
                          [i \in 1..Len(lines) |-> scalar(value(lines[i]))]))
          [] \A i \in 1..Len(lines) : IsEntry(lines[i]) /\ IsPlain(item(lines[i])) ->
                Ok(PyList([i \in 1..Len(lines) |-> scalar(item(lines[i]))]))
          [] \A i \in 1..Len(lines) : IsPlain(lines[i]) ->
                Ok(scalar(Join([i \in 1..Len(lines) |->
                            (IF i = 1 THEN "" ELSE " ") \o Strip(lines[i])])))
          [] OTHER -> Raise("YAMLError")

\* line 103: yaml.safe_load of a block of plain lines without indentation;
\* blank lines and lines that start with # are skipped
SafeLoadText(text) ==
    LoadLines(SelectSeq(Split(text, "\n"),
                        LAMBDA l : Strip(l) # "" /\ ~StartsWith(l, "#")))

\* lines 102-107: what the loaded front matter and the rest make
Frontmatter(content, rest, loaded) ==
    IF loaded.exc # "" THEN <<EmptyDict, content>>
    ELSE <<IF Truthy(loaded.val) THEN loaded.val ELSE EmptyDict, Strip(rest)>>

\* lines 98-107
FrontmatterParts(content, parts) ==
    IF Len(parts) < 3 THEN <<EmptyDict, content>>
    ELSE Frontmatter(content, parts[3], SafeLoadText(parts[2]))

\* lines 93-107: (frontmatter, body)
parse_frontmatter_and_content(content) ==
    IF ~StartsWith(content, "---") THEN <<EmptyDict, content>>
    ELSE FrontmatterParts(content, SplitMax(content, "---", 2))

\* frontmatter.get(name, "")
FrontGet(frontmatter, name) ==
    IF frontmatter.t = "dict" THEN Ok(GetOr(frontmatter, PyStr(name), PyStr("")))
    ELSE Raise("AttributeError")

\* the length of the run of whitespace that starts at position i of s
SpaceRun(s, i) ==
    LET stop == {j \in i..Len(s) : CharAt(s, j) \notin Whitespace}
    IN  IF stop = {} THEN Len(s) + 1 - i
        ELSE (CHOOSE j \in stop : \A k \in stop : j <= k) - i

Largest(S) == CHOOSE n \in S : \A m \in S : n >= m

\* the pattern after a marker that ends before position e: \s*([^\n]*)\n.
\* The places <<start of the group, newline>>, one per count of whitespace
\* characters that \s* may keep.
LineGroups(body, e) ==
    {<<e + k, Find(body, "\n", e + k)>> : k \in 0..SpaceRun(body, e)}
    \ {<<e + k, 0>> : k \in 0..SpaceRun(body, e)}

\* .*?\*\*Type:\*\*\s*([^\n]*)\n after the newline at position n: the
\* place of the type group, <<0, 0>> when the rest does not match
TypeGroup(body, low, n) ==
    LET t == Find(low, "**type:**", n + 1)
    IN  IF t = 0 \/ LineGroups(body, t + 9) = {} THEN <<0, 0>>
        ELSE CHOOSE g \in LineGroups(body, t + 9) :
                \A h \in LineGroups(body, t + 9) : g[1] >= h[1]

\* the match of attr_pattern that starts at p, whose name ends before q and
\* whose description marker is at d: <<>> when there is none, or the places
\* <<description group, type group>>. \s* keeps the most whitespace that
\* lets the rest of the pattern match.
AttrMatch(body, low, q, d) ==
    LET hash  == Find(body, "#", q + 1)
        lines == {g \in LineGroups(body, d + 16) : TypeGroup(body, low, g[2])[1] # 0}
        first == CHOOSE g \in lines : \A h \in lines : g[1] >= h[1]
    IN  IF d = 0 \/ (hash > 0 /\ hash < d) \/ lines = {} THEN <<>>
        ELSE <<first, TypeGroup(body, low, first[2])>>

\* the match that starts at the heading at p
AttrMatchAt(body, low, p, q) ==
    IF q <= p + 5 THEN <<>>
    ELSE AttrMatch(body, low, q, Find(low, "**description:**", q + 1))

\* lines 124-125: re.finditer(attr_pattern, body, re.DOTALL | re.IGNORECASE)
\* from position from on: the groups <<name, description, type>> of the
\* matches
RECURSIVE AttrMatches(_, _, _)
AttrMatchesFrom(body, low, p, q, found) ==
    IF p = 0 THEN <<>>
    ELSE IF found = <<>> THEN AttrMatches(body, low, p + 1)
    ELSE <<<<SubSeq(body, p + 5, q - 1),
             SubSeq(body, found[1][1], found[1][2] - 1),
             SubSeq(body, found[2][1], found[2][2] - 1)>>>>
         \o AttrMatches(body, low, found[2][2] + 1)

AttrHeading(body, low, p, q) ==
    AttrMatchesFrom(body, low, p, q, IF p = 0 THEN <<>> ELSE AttrMatchAt(body, low, p, q))

AttrMatches(body, low, from) ==
    AttrHeading(body, low, Find(body, "### " \o Backtick, from),
                Find(body, Backtick, Find(body, "### " \o Backtick, from) + 5))

\* line 200-201: re.finditer(param_pattern, body) from position from on: the
\* four cells between five bars, the first three not empty
RECURSIVE ParamMatches(_, _)
ParamMatches(body, from) ==
    LET bar(i) == IF i = 0 THEN 0 ELSE Find(body, "|", i + 1)
        p  == Find(body, "|", from)
        p1 == bar(p)
        p2 == bar(p1)
        p3 == bar(p2)
        p4 == bar(p3)
    IN  IF p = 0 \/ p4 = 0 THEN <<>>
        ELSE IF p1 = p + 1 \/ p2 = p1 + 1 \/ p3 = p2 + 1
        THEN ParamMatches(body, p + 1)
        ELSE <<<<SubSeq(body, p + 1, p1 - 1), SubSeq(body, p1 + 1, p2 - 1),
                 SubSeq(body, p2 + 1, p3 - 1), SubSeq(body, p3 + 1, p4 - 1)>>>>
             \o ParamMatches(body, p4 + 1)

\* lines 133-157: the type, the format and the nullable flag a type_info makes
TypeInfo(type_info) ==
    [attr_type |->
        CASE Contains(type_info, "String") -> "string"
          [] Contains(type_info, "Integer") -> "integer"
          [] Contains(type_info, "Boolean") -> "boolean"
          [] Contains(type_info, "Array") -> "array"
          [] Contains(type_info, "Hash") -> "object"
          [] OTHER -> "string",
     format_type |->
        CASE ~Contains(type_info, "String") -> PyNone
          [] Contains(type_info, "URL") -> PyStr("uri")
          [] Contains(type_info, "Datetime") -> PyStr("date-time")
          [] OTHER -> PyNone,
     nullable |-> PyBool(\/ Contains(Lower(type_info), "nullable")
                         \/ Contains(Lower(type_info), "null"))]

\* lines 127-165: the property a matched attribute makes
AttributeProperty(groups, info) ==
    [PropertyInfo(groups[1], info.attr_type, Strip(groups[2])) EXCEPT
        !.nullable = info.nullable, !.format = info.format_type]

\* lines 117-167 on the parsed file
EntityOf(entity_file, description, matches) ==
    IF description.exc # "" THEN description
    ELSE Ok([EntityInfo(Stem(entity_file), description.val) EXCEPT
                !.properties = [i \in 1..Len(matches) |->
                    AttributeProperty(matches[i], TypeInfo(Strip(matches[i][3])))]])

\* lines 115-125
EntityParsed(entity_file, parsed) ==
    EntityOf(entity_file, FrontGet(parsed[1], "description"),
             AttrMatches(parsed[2], Lower(parsed[2]), 1))

\* lines 112-167 on the content fetched
EntityFetched(entity_file, content) ==
    IF ~Truthy(content) THEN Ok(PyNone)
    ELSE EntityParsed(entity_file, parse_frontmatter_and_content(content.v))

\* lines 109-167: Ok(None), Ok(entity), or the AttributeError of a front
\* matter that has no get
parse_entity(api, entity_file) ==
    EntityFetched(entity_file, fetch_file_content(api, ENTITIES_PATH \o "/" \o entity_file))

\* lines 202-213: the parameter a table row makes
RowParameter(cells) ==
    [ParameterInfo(Strip(cells[1]),
                   IF Lower(Strip(cells[2])) \in {"string", "integer", "boolean"}
                   THEN Lower(Strip(cells[2])) ELSE "string",
                   Strip(cells[3])) EXCEPT
        !.required = PyBool(Lower(Strip(cells[4])) = "required")]

\* lines 179-219 on the parsed file
EndpointOf(path_parts, http_method, title, description, rows) ==
    IF title.exc # "" THEN title
    ELSE Ok([EndpointInfo(IF Len(path_parts) >= 4 /\ path_parts[3] = "methods"
                          THEN "/api/v1/" \o path_parts[4] ELSE "/api/v1/unknown",
                          Lower(http_method), title.val, description.val,
                          IF Len(path_parts) >= 4 /\ path_parts[3] = "methods"
                          THEN <<PyStr(path_parts[4])>> ELSE <<>>) EXCEPT
                !.parameters = [i \in 1..Len(rows) |-> RowParameter(rows[i])],
                !.responses = <<ResponseInfo("200", "Success", PyNone)>>])

\* lines 175-207
EndpointParsed(method_path, http_method, parsed) ==
    EndpointOf(Split(method_path, "/"), http_method,
               FrontGet(parsed[1], "title"), FrontGet(parsed[1], "description"),
               SelectSeq(ParamMatches(parsed[2], 1),
                         LAMBDA cells : Strip(cells[1]) \notin {"", "Name"}))

\* lines 172-221 on the content fetched
EndpointFetched(method_path, http_method, content) ==
    IF ~Truthy(content) THEN Ok(PyNone)
    ELSE EndpointParsed(method_path, http_method, parse_frontmatter_and_content(content.v))

\* lines 169-221: Ok(None), Ok(endpoint), or the AttributeError of a front
\* matter that has no get
parse_method_file(api, method_path, http_method) ==
    EndpointFetched(method_path, http_method, fetch_file_content(api, method_path))

\* entity["type"] == "file" and entity["name"].endswith(".md")
IsMarkdownFile(entry) ==
    /\ GetItem(entry, PyStr("type")) = PyStr("file")
    /\ EndsWith(GetItem(entry, PyStr("name")).v, ".md")

EntryName(entry) == GetItem(entry, PyStr("name")).v

\* the first index whose result raised, Len + 1 when none did
FirstRaised(results) ==
    LET raised == {i \in 1..Len(results) : results[i].exc # ""}
    IN  IF raised = {} THEN Len(results) + 1
        ELSE CHOOSE i \in raised : \A j \in raised : i <= j

\* what a loop made before it ended: the values that are not None
Made(results, stop) ==
    LET kept == SelectSeq(SubSeq(results, 1, stop - 1), LAMBDA r : r.val # PyNone)
    IN  [i \in 1..Len(kept) |-> kept[i].val]

\* lines 226-231 with a second request for every file whose fetch gave nothing
EntitiesLoopRetrying(self, paths, results, stop) ==
    [self |-> [self EXCEPT
        !.entities = Assign(self.entities,
                            [i \in 1..Len(Made(results, stop)) |-> Made(results, stop)[i].name],
                            Made(results, stop)),
        !.requested = self.requested \o <<ENTITIES_PATH>>
            \o SubSeq(paths, 1, IF stop > Len(paths) THEN Len(paths) ELSE stop)
            \o SelectSeq(paths, LAMBDA path :
                            \E i \in 1..Len(paths) : /\ paths[i] = path
                                                     /\ i < stop
                                                     /\ results[i].val = PyNone)],
     exc |-> IF stop > Len(results) THEN "" ELSE results[stop].exc]

\* lines 226-231: the loop over the files, which the first exception ends
EntitiesLoop(self, paths, results, stop) ==
    [self |-> [self EXCEPT
        !.entities = Assign(self.entities,
                            [i \in 1..Len(Made(results, stop)) |-> Made(results, stop)[i].name],
                            Made(results, stop)),
        !.requested = self.requested \o <<ENTITIES_PATH>>
            \o SubSeq(paths, 1, IF stop > Len(paths) THEN Len(paths) ELSE stop)],
     exc |-> IF stop > Len(results) THEN "" ELSE results[stop].exc]

EntitiesParsed(self, paths, results) ==
    EntitiesLoop(self, paths, results, FirstRaised(results))

EntitiesListed(self, api, md_files) ==
    EntitiesParsed(self,
                   [i \in 1..Len(md_files) |-> ENTITIES_PATH \o "/" \o EntryName(md_files[i])],
                   [i \in 1..Len(md_files) |-> parse_entity(api, EntryName(md_files[i]))])

\* lines 223-231: self after the loop and the exception that ended it
parse_all_entities(self, api) ==
    EntitiesListed(self, api, SelectSeq(list_directory(api, ENTITIES_PATH), IsMarkdownFile))

\* line 245
HttpMethods == {"GET", "POST", "PUT", "PATCH", "DELETE"}

\* the sequences of a sequence, one after the other
RECURSIVE Flatten(_)
Flatten(seqs) ==
    CASE Len(seqs) = 0 -> <<>>
      [] Len(seqs) = 1 -> seqs[1]
      [] OTHER -> Flatten(SubSeq(seqs, 1, Len(seqs) \div 2))
                  \o Flatten(SubSeq(seqs, Len(seqs) \div 2 + 1, Len(seqs)))

\* lines 240-246: the method files of the listing of directory i
MethodsInside(i, name, listing) ==
    LET inside == SelectSeq(listing, LAMBDA f : /\ IsMarkdownFile(f)
                                                /\ Upper(Stem(EntryName(f))) \in HttpMethods)
    IN  [j \in 1..Len(inside) |->
            [dir |-> i,
             path |-> METHODS_PATH \o "/" \o name \o "/" \o EntryName(inside[j]),
             http_method |-> Stem(EntryName(inside[j]))]]

\* lines 237-246: the method files of the directories, in order
MethodFiles(api, dirs) ==
    Flatten([i \in 1..Len(dirs) |->
                MethodsInside(i, EntryName(dirs[i]),
                              list_directory(api, METHODS_PATH \o "/" \o EntryName(dirs[i])))])

\* lines 237-250: the loops over the directories and their files, which the
\* first exception ends; the directories listed are those up to the file
\* that raised
MethodsLoop(self, dirs, md_files, results, stop) ==
    LET asked  == SubSeq(md_files, 1, IF stop > Len(md_files) THEN Len(md_files) ELSE stop)
        of(i)  == SelectSeq(asked, LAMBDA f : f.dir = i)
    IN  [self |-> [self EXCEPT
            !.endpoints = self.endpoints \o Made(results, stop),
            !.requested = self.requested \o <<METHODS_PATH>>
                \o Flatten([i \in 1..(IF stop > Len(md_files) THEN Len(dirs)
                                      ELSE md_files[stop].dir) |->
                        <<METHODS_PATH \o "/" \o EntryName(dirs[i])>>
                        \o [j \in 1..Len(of(i)) |-> of(i)[j].path]])],
         exc |-> IF stop > Len(results) THEN "" ELSE results[stop].exc]

MethodsParsed(self, dirs, md_files, results) ==
    MethodsLoop(self, dirs, md_files, results, FirstRaised(results))

MethodsFound(self, api, dirs, md_files) ==
    MethodsParsed(self, dirs, md_files,
                  [i \in 1..Len(md_files) |->
                      parse_method_file(api, md_files[i].path, md_files[i].http_method)])

MethodsListed(self, api, dirs) == MethodsFound(self, api, dirs, MethodFiles(api, dirs))

\* lines 233-250: self after the loops and the exception that ended them
parse_all_methods(self, api) ==
    MethodsListed(self, api, SelectSeq(list_directory(api, METHODS_PATH),
                                       LAMBDA d : GetItem(d, PyStr("type")) = PyStr("dir")))

(***************************************************************************)
(* The runs of the generators. gen holds one record per run: its class,    *)
(* where it is in main, the generator object and the document once         *)
(* generate_openapi_spec has returned. Every run writes the two names of   *)
(* the working directory fs.                                               *)
(***************************************************************************)
Run(class, pc, self) == [class |-> class, pc |-> pc, self |-> self, spec |-> Absent]

NoNet == <<>>

\* main of the hardcoded generators: create_sample_entities (line 421),
\* create_comprehensive_entities (line 712)
CreateEntities ==
    /\ \E r \in DOMAIN gen :
          /\ gen[r].pc = "main"
          /\ gen[r].class \in {Sample, Comprehensive}
          /\ gen' = [gen EXCEPT ![r].pc = "entities",
                                ![r].self = IF gen[r].class = Sample
                                            THEN create_sample_entities(@)
                                            ELSE create_comprehensive_entities(@)]
    /\ UNCHANGED <<fs, net, vpc, vi, vcalls>>

\* create_sample_endpoints (line 422), create_comprehensive_endpoints (line 713)
CreateEndpoints ==
    /\ \E r \in DOMAIN gen :
          /\ gen[r].pc = "entities"
          /\ gen[r].class \in {Sample, Comprehensive}
          /\ gen' = [gen EXCEPT ![r].pc = "endpoints",
                                ![r].self = IF gen[r].class = Sample
                                            THEN create_sample_endpoints(@)
                                            ELSE create_comprehensive_endpoints(@)]
    /\ UNCHANGED <<fs, net, vpc, vi, vcalls>>

\* generate_openapi.py line 387: an exception of the call ends main
ParseAllEntities ==
    /\ \E r \in DOMAIN gen :
          /\ gen[r].pc = "main"
          /\ gen[r].class = Parser
          /\ LET result == parse_all_entities(gen[r].self, net)
             IN  gen' = [gen EXCEPT ![r].pc = IF result.exc # "" THEN "raised" ELSE "entities",
                                    ![r].self = result.self]
    /\ UNCHANGED <<fs, net, vpc, vi, vcalls>>

\* generate_openapi.py line 390
ParseAllMethods ==
    /\ \E r \in DOMAIN gen :
          /\ gen[r].pc = "entities"
          /\ gen[r].class = Parser
          /\ LET result == parse_all_methods(gen[r].self, net)
             IN  gen' = [gen EXCEPT ![r].pc = IF result.exc # "" THEN "raised" ELSE "endpoints",
                                    ![r].self = result.self]
    /\ UNCHANGED <<fs, net, vpc, vi, vcalls>>

\* spec = generator.generate_openapi_spec() with the schemas of the document
\* in either order
GenerateAnyOrder ==
    /\ \E r \in DOMAIN gen :
          /\ gen[r].pc = "endpoints"
          /\ \E reversed \in BOOLEAN :
                LET entities == gen[r].self.entities.v
                    turned   == [i \in 1..Len(entities) |-> entities[Len(entities) + 1 - i]]
                IN  gen' = [gen EXCEPT
                        ![r].pc = "generated",
                        ![r].spec = generate_openapi_spec(
                            IF reversed
                            THEN [gen[r].self EXCEPT !.entities = PyDict(turned)]
                            ELSE gen[r].self)]
    /\ UNCHANGED <<fs, net, vpc, vi, vcalls>>

\* spec = generator.generate_openapi_spec(): sample line 425, comprehensive
\* line 716, scraper line 393
Generate ==
    /\ \E r \in DOMAIN gen :
          /\ gen[r].pc = "endpoints"
          /\ gen' = [gen EXCEPT ![r].pc = "generated",
                                ![r].spec = generate_openapi_spec(gen[r].self)]
    /\ UNCHANGED <<fs, net, vpc, vi, vcalls>>

\* yaml.dump(spec, f, default_flow_style=False): the keys sorted
WriteYamlSorted ==
    /\ \E r \in DOMAIN gen :
          /\ gen[r].pc = "generated"
          /\ gen' = [gen EXCEPT ![r].pc = IF gen[r].class = Parser THEN "done" ELSE "yaml"]
          /\ fs' = [fs EXCEPT ![files[1]] = File("file", YamlDumpSorted(gen[r].spec))]
    /\ UNCHANGED <<net, vpc, vi, vcalls>>

\* yaml.dump(spec, f, default_flow_style=False, sort_keys=False): sample lines
\* 428-430, comprehensive lines 719-721, scraper lines 396-398, after which
\* the scraper's main is over
WriteYaml ==
    /\ \E r \in DOMAIN gen :
          /\ gen[r].pc = "generated"
          /\ gen' = [gen EXCEPT ![r].pc = IF gen[r].class = Parser THEN "done" ELSE "yaml"]
          /\ fs' = [fs EXCEPT ![files[1]] = File("file", YamlDump(gen[r].spec))]
    /\ UNCHANGED <<net, vpc, vi, vcalls>>

\* json.dump(spec, f, indent=2): sample lines 433-435, comprehensive lines
\* 724-726
WriteJson ==
    /\ \E r \in DOMAIN gen :
          /\ gen[r].pc = "yaml"
          /\ gen' = [gen EXCEPT ![r].pc = "done"]
          /\ fs' = [fs EXCEPT ![files[2]] = File("file", JsonDump(gen[r].spec))]
    /\ UNCHANGED <<net, vpc, vi, vcalls>>

\* the working directory before a run
EmptyDir == [name \in {files[i] : i \in 1..Len(files)} |-> Missing]

(***************************************************************************)
(* SpecGenMain: two runs of the hardcoded generators, in any interleaving. *)
(***************************************************************************)
InitGenMain ==
    /\ \E first, second \in {Sample, Comprehensive} :
          gen = <<Run(first, "main", NewGenerator(first)),
                  Run(second, "main", NewGenerator(second))>>
    /\ fs = EmptyDir
    /\ net = NoNet
    /\ vpc = "none"
    /\ vi = 0
    /\ vcalls = <<>>

NextGenMain == CreateEntities \/ CreateEndpoints \/ Generate \/ WriteYaml \/ WriteJson

SpecGenMain == InitGenMain /\ [][NextGenMain]_vars

(***************************************************************************)
(* SpecGenerate: one generator object of any of the three classes, new or  *)
(* holding any of a few entities and endpoints, a caller that generates    *)
(* and writes the document as main does, and one that validates a file of  *)
(* the working directory.                                                  *)
(***************************************************************************)
TestProperties ==
    <<PropertyInfo("id", "string", "The ID"),
      [PropertyInfo("note", "string", "The bio") EXCEPT
          !.required = PyBool(FALSE), !.nullable = PyBool(TRUE)],
      [PropertyInfo("url", "string", "The location") EXCEPT !.format = PyStr("uri")],
      [PropertyInfo("fields", "array", "The fields") EXCEPT !.required = PyBool(FALSE)],
      [PropertyInfo("emojis", "array", "The emojis") EXCEPT !.items_ref = PyStr("CustomEmoji")],
      [PropertyInfo("account", "object", "The author") EXCEPT !.nullable = PyBool(TRUE)],
      [PropertyInfo("id", "integer", "The number") EXCEPT !.required = PyBool(FALSE)]>>

TestPropertyLists ==
    {<<>>}
    \cup {<<TestProperties[i]>> : i \in DOMAIN TestProperties}
    \cup {<<TestProperties[i], TestProperties[j]>> :
            i \in {1, 2, 7}, j \in {2, 3, 4, 5, 6, 1}}

TestEntity(name, properties) ==
    [EntityInfo(name, PyStr("An entity")) EXCEPT !.properties = properties]

TestEntities ==
    {EmptyDict}
    \cup {PyDict(<<Item(PyStr("Account"), TestEntity("Account", properties))>>) :
            properties \in TestPropertyLists}
    \cup {PyDict(<<Item(PyStr("Status"), TestEntity("Status", <<TestProperties[i]>>)),
                   Item(PyStr("Account"), TestEntity("Account", <<TestProperties[j]>>))>>) :
            i \in {1, 2}, j \in {2, 5}}

TestEndpoints ==
    <<[EndpointInfo("/api/v1/accounts/{id}", "get", PyStr("Get account"),
                    PyStr("View an account"), <<PyStr("accounts")>>) EXCEPT
          !.parameters = <<[ParameterInfo("id", "string", "The ID") EXCEPT
                               !.required = PyBool(TRUE), !.location = PyStr("path")]>>,
          !.responses = <<ResponseInfo("200", "Success", PyStr("Account")),
                          ResponseInfo("404", "Not found", PyNone)>>],
      [EndpointInfo("/api/v1/statuses", "post", PyStr("Post status"),
                    PyStr("Publish a status"), <<PyStr("statuses"), PyStr("accounts")>>) EXCEPT
          !.parameters = <<ParameterInfo("status", "string", "The text")>>,
          !.responses = <<ResponseInfo("200", "Success", PyStr("Status"))>>],
      EndpointInfo("/api/v1/timelines/public", "get", PyStr("Public timeline"),
                   PyStr("View public statuses"), <<PyStr("timelines")>>),
      EndpointInfo("/oauth/token", "post", PyStr("Obtain a token"), PyStr(""),
                   <<PyStr("oauth")>>),
      EndpointInfo("/api/v1/accounts/:id", "delete", PyStr("Remove"), PyStr(""), <<>>),
      EndpointInfo("/api/v1/accounts/{id}", "get", PyStr("Get again"), PyStr(""),
                   <<PyStr("404")>>),
      EndpointInfo("/oauth/timeline", "get", PyStr("Authorizations"), PyStr(""),
                   <<PyStr("oauth")>>)>>

TestEndpointLists ==
    {<<>>}
    \cup {<<TestEndpoints[i]>> : i \in DOMAIN TestEndpoints}
    \cup {<<TestEndpoints[i], TestEndpoints[j]>> :
            i \in {1, 2}, j \in {3, 4, 5, 6, 1}}

Holding(class, entities, endpoints) ==
    [NewGenerator(class) EXCEPT !.entities = entities, !.endpoints = endpoints]

InitGenerate ==
    /\ \/ \E class \in {Sample, Comprehensive} :
             gen = <<Run(class, "main", NewGenerator(class))>>
       \/ \E class \in {Parser, Sample, Comprehensive} :
             \E entities \in TestEntities : \E endpoints \in TestEndpointLists :
                gen = <<Run(class, "endpoints", Holding(class, entities, endpoints))>>
    /\ fs = EmptyDir
    /\ net = NoNet
    /\ vpc = "caller"
    /\ vi = 0
    /\ vcalls = <<>>

NextGenerate ==
    CreateEntities \/ CreateEndpoints \/ Generate \/ WriteYaml \/ WriteJson \/ ValidateCall

SpecGenerate == InitGenerate /\ [][NextGenerate]_vars

(***************************************************************************)
(* SpecScrape: main of generate_openapi.py against a repository whose      *)
(* listings and files answer or fail. The contents are base64, in lines,   *)
(* as the API sends them.                                                  *)
(***************************************************************************)
\* an entity file: a front matter, an attribute, an attribute whose heading carries an anchor, a nullable array:
\*     ---
\*     title: Account
\*     description: A user
\*     ---
\*     ### `id`
\*     **Description:** The id
\*     **Type:** String
\*     ### `note` {#note}
\*     **Description:** The bio
\*     **Type:** String
\*     ### `fields`
\*     **Description:** Fields
\*     **Type:** Array of Field or null
AccountDoc ==
    "LS0tCnRpdGxlOiBBY2NvdW50CmRlc2NyaXB0aW9uOiBBIHVzZXIKLS0tCiMj\n"
    \o "IyBgaWRgCioqRGVzY3JpcHRpb246KiogVGhlIGlkCioqVHlwZToqKiBTdHJp\n"
    \o "bmcKIyMjIGBub3RlYCB7I25vdGV9CioqRGVzY3JpcHRpb246KiogVGhlIGJp\n"
    \o "bwoqKlR5cGU6KiogU3RyaW5nCiMjIyBgZmllbGRzYAoqKkRlc2NyaXB0aW9u\n"
    \o "OioqIEZpZWxkcwoqKlR5cGU6KiogQXJyYXkgb2YgRmllbGQgb3IgbnVsbAo=\n"

\* an entity file without front matter:
\*     ### `uri`
\*     **Description:** The address
\*     **TYPE:** String (URL)
StatusDoc ==
    "IyMjIGB1cmlgCioqRGVzY3JpcHRpb246KiogVGhlIGFkZHJlc3MKKipUWVBF\n"
    \o "OioqIFN0cmluZyAoVVJMKQo=\n"

\* a file whose front matter is a line of text:
\*     ---
\*     just text
\*     ---
\*     ### `id`
\*     **Description:** The id
\*     **Type:** String
TextFrontDoc ==
    "LS0tCmp1c3QgdGV4dAotLS0KIyMjIGBpZGAKKipEZXNjcmlwdGlvbjoqKiBU\n"
    \o "aGUgaWQKKipUeXBlOioqIFN0cmluZwo=\n"

\* a file whose front matter is a list:
\*     ---
\*     - accounts
\*     - statuses
\*     ---
\*     | id | String | The ID | required |
ListFrontDoc ==
    "LS0tCi0gYWNjb3VudHMKLSBzdGF0dXNlcwotLS0KfCBpZCB8IFN0cmluZyB8\n"
    \o "IFRoZSBJRCB8IHJlcXVpcmVkIHwK\n"

\* a file whose front matter is malformed YAML:
\*     ---
\*     title: [a
\*     ---
\*     ### `id`
\*     **Description:** The id
\*     **Type:** Integer
BrokenFrontDoc ==
    "LS0tCnRpdGxlOiBbYQotLS0KIyMjIGBpZGAKKipEZXNjcmlwdGlvbjoqKiBU\n"
    \o "aGUgaWQKKipUeXBlOioqIEludGVnZXIK\n"

\* a method file: a front matter and a table of parameters:
\*     ---
\*     title: View account
\*     description: Get one
\*     ---
\*     | Name | Type | Description | Required |
\*     | id | String | The ID | required |
\*     | limit | Integer | How many | |
GetDoc ==
    "LS0tCnRpdGxlOiBWaWV3IGFjY291bnQKZGVzY3JpcHRpb246IEdldCBvbmUK\n"
    \o "LS0tCnwgTmFtZSB8IFR5cGUgfCBEZXNjcmlwdGlvbiB8IFJlcXVpcmVkIHwK\n"
    \o "fCBpZCB8IFN0cmluZyB8IFRoZSBJRCB8IHJlcXVpcmVkIHwKfCBsaW1pdCB8\n"
    \o "IEludGVnZXIgfCBIb3cgbWFueSB8IHwK\n"

\* a method file with an empty front matter:
\*     ---
\*     ---
\*     No parameters.
PostDoc ==
    "LS0tCi0tLQpObyBwYXJhbWV0ZXJzLgo=\n"
\* the JSON of a file and of an entry of a listing
Blob(encoding, content) ==
    PyDict(<<Entry("type", PyStr("file")), Entry("encoding", PyStr(encoding)),
             Entry("content", PyStr(content))>>)

DirEntry(type, name) ==
    PyDict(<<Entry("name", PyStr(name)), Entry("type", PyStr(type))>>)

\* the answers to the request of a file: none, a file too large to be
\* encoded, an empty file, bytes that are no text, or a text
FileAnswers(texts) ==
    {NoAnswer, Answer(Blob("none", "")), Answer(Blob("base64", "")),
     Answer(Blob("base64", "/w==\n"))}
    \cup {Answer(Blob("base64", text)) : text \in texts}

EntityNets ==
    {ENTITIES_PATH :> NoAnswer, ENTITIES_PATH :> Answer(PyList(<<>>))}
    \cup {(ENTITIES_PATH :> Answer(PyList(<<DirEntry("file", "Account.md"),
                                           DirEntry("file", "_index.txt"),
                                           DirEntry("dir", "archive.md"),
                                           DirEntry("file", "Status.md")>>)))
          @@ (ENTITIES_PATH \o "/Account.md" :> account)
          @@ (ENTITIES_PATH \o "/Status.md" :> status) :
            account \in FileAnswers({AccountDoc, TextFrontDoc, BrokenFrontDoc}),
            status \in FileAnswers({StatusDoc})}

MethodNets ==
    {METHODS_PATH :> NoAnswer}
    \cup {(METHODS_PATH :> Answer(PyList(<<DirEntry("dir", "accounts"),
                                          DirEntry("file", "_index.md"),
                                          DirEntry("dir", "statuses")>>)))
          @@ accounts @@ statuses :
            accounts \in
                {METHODS_PATH \o "/accounts" :> NoAnswer}
                \cup {(METHODS_PATH \o "/accounts" :>
                            Answer(PyList(<<DirEntry("file", "GET.md"),
                                            DirEntry("file", "notes.md"),
                                            DirEntry("file", "post.md")>>)))
                      @@ (METHODS_PATH \o "/accounts/GET.md" :> get)
                      @@ (METHODS_PATH \o "/accounts/post.md" :> post) :
                        get \in {NoAnswer, Answer(Blob("base64", GetDoc)),
                                 Answer(Blob("base64", ListFrontDoc))},
                        post \in {Answer(Blob("none", "")), Answer(Blob("base64", PostDoc))}},
            statuses \in
                {METHODS_PATH \o "/statuses" :> NoAnswer}
                \cup {(METHODS_PATH \o "/statuses" :>
                            Answer(PyList(<<DirEntry("file", "DELETE.md")>>)))
                      @@ (METHODS_PATH \o "/statuses/DELETE.md" :> delete) :
                        delete \in {NoAnswer, Answer(Blob("base64", PostDoc))}}}

InitScrape ==
    /\ gen = <<Run(Parser, "main", NewGenerator(Parser))>>
    /\ \E entities \in EntityNets : \E methods \in MethodNets : net = entities @@ methods
    /\ fs = EmptyDir
    /\ vpc = "none"
    /\ vi = 0
    /\ vcalls = <<>>

NextScrape == ParseAllEntities \/ ParseAllMethods \/ Generate \/ WriteYaml

SpecScrape == InitScrape /\ [][NextScrape]_vars

(***************************************************************************)
(* Claims about the validator.                                             *)
(***************************************************************************)
SupportedSuffix(file_path) == Lower(Suffix(file_path)) \in {".yaml", ".yml", ".json"}

\* the file of the call exists, has a supported suffix and parses
CallParses(c) ==
    LET file == fs[c.path]
    IN  /\ file.kind = "file"
        /\ SupportedSuffix(c.path)
        /\ file.body.syntax # "bad"
        /\ Lower(Suffix(c.path)) = ".json" => file.body.syntax = "json"

\* the parsed document of the file of the call
CallDoc(c) == Construct(fs[c.path].body.node)

HasName(x, name) == x.t = "dict" /\ HasKey(x, PyStr(name))

\* openapi with a version prefixed 3., info.title, info.version and paths
Complete(doc) ==
    /\ HasName(doc, "openapi")
    /\ GetItem(doc, PyStr("openapi")).t = "str"
    /\ StartsWith(GetItem(doc, PyStr("openapi")).v, "3.")
    /\ HasName(doc, "info")
    /\ HasName(GetItem(doc, PyStr("info")), "title")
    /\ HasName(GetItem(doc, PyStr("info")), "version")
    /\ HasName(doc, "paths")

HasLine(c, text) == \E i \in 1..Len(c.out) : c.out[i].t = text

LineValue(c, text) == c.out[CHOOSE i \in 1..Len(c.out) : c.out[i].t = text].v

LastLine(c) == c.out[Len(c.out)].t

\* C1: validate_openapi_spec returns True for every existing .yaml/.yml/.json
\* file whose parsed document has openapi with a version prefixed 3.,
\* info.title, info.version and paths, whatever the shape of paths and components.
C1_AcceptsEveryCompleteDocument ==
    \A i \in 1..Len(vcalls) :
        CallParses(vcalls[i]) /\ Complete(CallDoc(vcalls[i]))
            => vcalls[i].exc = "" /\ vcalls[i].ret

\* C2: validate_openapi_spec returns False for every document that lacks the
\* key openapi, an openapi value starting with 3., the key info, info.title,
\* info.version or the key paths.
C2_RejectsIncompleteDocument ==
    \A i \in 1..Len(vcalls) :
        CallParses(vcalls[i]) /\ ~Complete(CallDoc(vcalls[i]))
            => vcalls[i].exc = "" /\ ~vcalls[i].ret

\* C2's case: a document with a 2.x version and everything else is rejected
C2_Witness ==
    \E i \in 1..Len(vcalls) :
        /\ CallParses(vcalls[i])
        /\ LET doc == CallDoc(vcalls[i])
           IN  /\ HasName(doc, "openapi") /\ HasName(doc, "paths")
               /\ GetItem(doc, PyStr("openapi")) = PyStr("2.0")
               /\ HasName(doc, "info")
               /\ HasName(GetItem(doc, PyStr("info")), "title")
               /\ HasName(GetItem(doc, PyStr("info")), "version")
        /\ ~vcalls[i].ret
        /\ LastLine(vcalls[i]) = "Unsupported OpenAPI version"

\* the number of keys of a value: a value that is no mapping has none
KeyCount(x) == IF x.t = "dict" THEN Len(x.v) ELSE 0

\* the number of keys of components.schemas, 0 when either is absent
SchemaKeys(doc) ==
    IF HasName(doc, "components") /\ HasName(GetItem(doc, PyStr("components")), "schemas")
    THEN KeyCount(GetItem(GetItem(doc, PyStr("components")), PyStr("schemas")))
    ELSE 0

\* C3: whenever validate_openapi_spec accepts a document, the Paths count it
\* reports is the number of keys of paths and the Schemas count the number of
\* keys of components.schemas, 0 when components or components.schemas is absent.
C3_CountsMatchCollections ==
    \A i \in 1..Len(vcalls) :
        vcalls[i].ret =>
            /\ LineValue(vcalls[i], "Paths") = KeyCount(GetItem(CallDoc(vcalls[i]), PyStr("paths")))
            /\ LineValue(vcalls[i], "Schemas") = SchemaKeys(CallDoc(vcalls[i]))

\* C4: for every path validate_openapi_spec returns a boolean and no exception
\* reaches the caller; it returns False for a missing file, for a suffix other
\* than .yaml/.yml/.json in any case of letters, for a body that does not
\* parse, and when any other exception occurs in the checks.
C4_ReturnsBooleanNeverRaises ==
    \A i \in 1..Len(vcalls) :
        LET c    == vcalls[i]
            file == fs[c.path]
        IN  /\ c.exc = ""
            /\ c.ret \in BOOLEAN
            /\ file.kind = "missing" => ~c.ret /\ LastLine(c) = "File not found"
            /\ file.kind # "missing" /\ ~SupportedSuffix(c.path)
                  => ~c.ret /\ LastLine(c) = "Unsupported file format"
            /\ file.kind # "missing" /\ SupportedSuffix(c.path)
                  => ~HasLine(c, "Unsupported file format")
            /\ file.kind = "file" /\ SupportedSuffix(c.path) /\ ~CallParses(c)
                  => ~c.ret /\ LastLine(c) \in {"YAML parsing error", "JSON parsing error"}
            /\ HasLine(c, "Validation error") => ~c.ret

\* C4's case: an exception of the checks (a TypeError of len(None)) was caught
\* in a file whose suffix is written in capitals
C4_Witness ==
    \E i \in 1..Len(vcalls) :
        /\ vcalls[i].path = "openapi.YAML"
        /\ vcalls[i].exc = ""
        /\ ~vcalls[i].ret
        /\ HasLine(vcalls[i], "Validation error")
        /\ LineValue(vcalls[i], "Validation error") = PyStr("TypeError")

\* C10: main validates mastodon-openapi.yaml then mastodon-openapi.json, the
\* second whatever the outcome of the first, each exactly once per run.
C10_MainValidatesBothInOrder ==
    /\ vpc # "raised"
    /\ Len(vcalls) <= Len(files)
    /\ \A i \in 1..Len(vcalls) : vcalls[i].path = files[i]
    /\ vpc = "loop" => Len(vcalls) = vi - 1
    /\ vpc = "done" => Len(vcalls) = Len(files)

\* C10's case: the first file was rejected and the second validated after it
C10_Witness ==
    /\ vpc = "done"
    /\ Len(vcalls) = 2
    /\ ~vcalls[1].ret
    /\ vcalls[2].path = "mastodon-openapi.json"
    /\ vcalls[2].ret

\* run r holds the document generate_openapi_spec returned
HasDocument(r) == gen[r].pc \in {"generated", "yaml", "done"}

\* components.schemas of a document
SchemasOf(spec) == GetItem(GetItem(spec, PyStr("components")), PyStr("schemas"))

\* the names of the properties of an entity flagged required, in table order
FlaggedRequired(entity) ==
    LET flagged == SelectSeq(entity.properties, LAMBDA prop : prop.required = PyBool(TRUE))
    IN  [i \in 1..Len(flagged) |-> flagged[i].name]

\* the required list of a schema is the flagged names and is there only then
RequiredIsFlagged(schema, flagged) ==
    /\ HasName(schema, "required") <=> flagged # <<>>
    /\ HasName(schema, "required") =>
          /\ GetItem(schema, PyStr("required")) = PyList(flagged)
          /\ \A i \in 1..Len(flagged) :
                HasKey(GetItem(schema, PyStr("properties")), flagged[i])

\* every schema of the document against the entity it was made from
SchemasRequireFlagged(schemas, entities) ==
    /\ DictKeys(schemas) = DictKeys(entities)
    /\ \A i \in 1..Len(entities.v) :
          RequiredIsFlagged(schemas.v[i].v, FlaggedRequired(entities.v[i].v))

\* C5: in every schema the sample and comprehensive generators emit, required
\* is exactly the names of the entity's properties flagged required, in table
\* order, every listed name is a key of the schema's properties, and the key
\* required is present exactly when at least one property is flagged required.
C5_RequiredListsFlaggedProperties ==
    \A r \in DOMAIN gen :
        gen[r].class \in {Sample, Comprehensive} /\ HasDocument(r)
            => SchemasRequireFlagged(SchemasOf(gen[r].spec), gen[r].self.entities)

\* C5's case: a document with a schema that lists its one required property
\* and a schema with a property and no required key
C5_Witness ==
    \E r \in DOMAIN gen :
        /\ gen[r].class \in {Sample, Comprehensive}
        /\ HasDocument(r)
        /\ \E i, j \in 1..Len(SchemasOf(gen[r].spec).v) :
              /\ HasName(SchemasOf(gen[r].spec).v[i].v, "required")
              /\ Len(GetItem(SchemasOf(gen[r].spec).v[i].v, PyStr("required")).v) = 1
              /\ ~HasName(SchemasOf(gen[r].spec).v[j].v, "required")
              /\ Len(GetItem(SchemasOf(gen[r].spec).v[j].v, PyStr("properties")).v) = 1

\* the keys the document of every generator has
HasTopLevelKeys(spec) ==
    /\ HasName(spec, "openapi")
    /\ GetItem(spec, PyStr("openapi")) = PyStr("3.0.3")
    /\ HasName(spec, "info")
    /\ HasName(spec, "servers")
    /\ HasName(spec, "paths")
    /\ HasName(spec, "components")
    /\ HasName(GetItem(spec, PyStr("components")), "schemas")
    /\ HasName(GetItem(spec, PyStr("components")), "securitySchemes")

\* C6: for every content of the entities map and the endpoints list, both
\* empty included, generate_openapi_spec of each of the three generators
\* returns a document with openapi equal to 3.0.3 and the keys info, servers,
\* paths, components.schemas and components.securitySchemes.
C6_DocumentHasTopLevelKeys ==
    \A r \in DOMAIN gen : HasDocument(r) => HasTopLevelKeys(gen[r].spec)

\* C6's case: the document of a scraper that holds no entity and no endpoint
C6_Witness ==
    \E r \in DOMAIN gen :
        /\ gen[r].class = Parser
        /\ HasDocument(r)
        /\ gen[r].self.entities = EmptyDict
        /\ gen[r].self.endpoints = <<>>
        /\ GetItem(gen[r].spec, PyStr("paths")) = EmptyDict
        /\ SchemasOf(gen[r].spec) = EmptyDict

\* the keys of a sequence, each at its first occurrence
FirstOccurrences(keys) ==
    LET firsts == SelectSeq([i \in 1..Len(keys) |-> i],
                            LAMBDA i : \A j \in 1..(i - 1) : keys[j] # keys[i])
    IN  [i \in 1..Len(firsts) |-> keys[firsts[i]]]

\* schemas in the order of the entities, the properties of each in the order
\* of the entity's table, paths in the order of the endpoints
InTableOrder(class, self, spec) ==
    /\ DictKeys(SchemasOf(spec)) = DictKeys(self.entities)
    /\ \A i \in 1..Len(self.entities.v) :
          DictKeys(GetItem(SchemasOf(spec).v[i].v, PyStr("properties")))
              = FirstOccurrences([p \in 1..Len(self.entities.v[i].v.properties) |->
                                      self.entities.v[i].v.properties[p].name])
    /\ DictKeys(GetItem(spec, PyStr("paths")))
          = FirstOccurrences([i \in 1..Len(self.endpoints) |->
                                  OpenapiPath(class, self.endpoints[i])])

Accepts(name, body) ==
    LET result == validate_openapi_spec(name, name :> File("file", body))
    IN  result.exc = "" /\ result.ret = TRUE

\* C8: the document generate_openapi_spec of each of the three generators
\* produces, for any entities and endpoints the generator holds, none at all
\* included, is accepted by validate_openapi_spec when written as .yaml or
\* .json.
C8_ValidatorAcceptsGeneratedDocument ==
    /\ \A r \in DOMAIN gen :
          HasDocument(r) =>
              /\ Accepts("mastodon-openapi.yaml", YamlDump(gen[r].spec))
              /\ Accepts("mastodon-openapi.json", JsonDump(gen[r].spec))
    /\ \A i \in 1..Len(vcalls) :
          \/ HasLine(vcalls[i], "File not found")
          \/ vcalls[i].exc = "" /\ vcalls[i].ret = TRUE

\* C8's case: the validator has accepted the written .yaml file of a document
\* with a path whose operation has a tag of digits
C8_Witness ==
    \E i \in 1..Len(vcalls) : \E r \in DOMAIN gen :
        /\ vcalls[i].path = "mastodon-openapi.yaml"
        /\ vcalls[i].ret = TRUE
        /\ HasLine(vcalls[i], "OpenAPI specification is valid")
        /\ LineValue(vcalls[i], "Paths") = 1
        /\ \E e \in 1..Len(gen[r].self.endpoints) :
              gen[r].self.endpoints[e].tags = <<PyStr("404")>>

\* the listed entity files whose fetch gives a content
FetchedEntityFiles(api) ==
    SelectSeq(SelectSeq(list_directory(api, ENTITIES_PATH), IsMarkdownFile),
              LAMBDA f : Truthy(fetch_file_content(api, ENTITIES_PATH \o "/" \o EntryName(f))))

\* the listed method files whose fetch gives a content, in listing order
FetchedMethodFiles(api) ==
    SelectSeq(MethodFiles(api, SelectSeq(list_directory(api, METHODS_PATH),
                                         LAMBDA d : GetItem(d, PyStr("type")) = PyStr("dir"))),
              LAMBDA f : Truthy(fetch_file_content(api, f.path)))

\* the entities map holds the fetched entity files and no other
HoldsFetchedEntities(self, fetched) ==
    DictKeys(self.entities) = [i \in 1..Len(fetched) |-> PyStr(Stem(EntryName(fetched[i])))]

\* the endpoints list holds the fetched method files in listing order
HoldsFetchedMethods(self, fetched) ==
    [i \in 1..Len(self.endpoints) |-> <<self.endpoints[i].path, self.endpoints[i].method>>]
        = [i \in 1..Len(fetched) |->
              <<PyStr("/api/v1/" \o Split(fetched[i].path, "/")[4]),
                PyStr(Lower(fetched[i].http_method))>>]

\* C9: in the scraping generator no exception propagates from parse_all_entities
\* and parse_all_methods, a file whose fetch fails contributes nothing and
\* every other listed file is still processed: after parse_all_entities the
\* entities map holds exactly the entities whose fetch succeeded, after
\* parse_all_methods the endpoints list holds exactly the successfully fetched
\* method files in listing order.
C9_FailedFetchSkipsOnlyThatFile ==
    \A r \in DOMAIN gen :
        gen[r].class = Parser =>
            /\ gen[r].pc # "raised"
            /\ gen[r].pc # "main"
                  => HoldsFetchedEntities(gen[r].self, FetchedEntityFiles(net))
            /\ gen[r].pc \notin {"main", "entities"}
                  => HoldsFetchedMethods(gen[r].self, FetchedMethodFiles(net))

\* the document read back from a written file
Loaded(name) == Construct(fs[name].body.node)

\* what validate_openapi_spec prints and returns for the two files
SameReport(yaml, json) ==
    /\ yaml.exc = "" /\ json.exc = ""
    /\ yaml.ret = json.ret
    /\ yaml.out = json.out

\* C11: in one run of the sample or comprehensive generator the YAML file and
\* the JSON file are serializations of the same document object, the same
\* keys and values in the same order, so the validator reports the same
\* version, title, path count, schema count and tags for both.
C11_YamlAndJsonHoldSameDocument ==
    \A r \in DOMAIN gen :
        /\ gen[r].class \in {Sample, Comprehensive} /\ gen[r].pc = "yaml" =>
            /\ fs["mastodon-openapi.yaml"].kind = "file"
            /\ Loaded("mastodon-openapi.yaml") = gen[r].spec
        /\ gen[r].class \in {Sample, Comprehensive} /\ gen[r].pc = "done" =>
            /\ fs["mastodon-openapi.yaml"].kind = "file"
            /\ fs["mastodon-openapi.json"].kind = "file"
            /\ Loaded("mastodon-openapi.yaml") = gen[r].spec
            /\ Loaded("mastodon-openapi.json") = gen[r].spec
            /\ SameReport(validate_openapi_spec("mastodon-openapi.yaml", fs),
                          validate_openapi_spec("mastodon-openapi.json", fs))

\* C11's case: a run that made its entities and endpoints from its tables has
\* written both files, each with several paths and schemas
C11_Witness ==
    \E r \in DOMAIN gen :
        /\ gen[r].class \in {Sample, Comprehensive}
        /\ gen[r].pc = "done"
        /\ fs["mastodon-openapi.yaml"].body.syntax = "yaml"
        /\ fs["mastodon-openapi.json"].body.syntax = "json"
        /\ Len(GetItem(Loaded("mastodon-openapi.json"), PyStr("paths")).v) > 1
        /\ Len(SchemasOf(Loaded("mastodon-openapi.yaml")).v) > 1
        /\ validate_openapi_spec("mastodon-openapi.yaml", fs).ret = TRUE

\* the paths of a log, each once
NoneTwice(requested) ==
    \A i, j \in 1..Len(requested) : requested[i] = requested[j] => i = j

\* the paths main asks for are the two listings, the listings of the method
\* directories and the listed files
IsDocumentationPath(path) ==
    \/ path \in {ENTITIES_PATH, METHODS_PATH}
    \/ StartsWith(path, ENTITIES_PATH \o "/")
    \/ StartsWith(path, METHODS_PATH \o "/")

\* C12: in one run of the scraping generator each documentation path (the two
\* top-level listings, each method directory listing, each entity file, each
\* method file) is requested at most once, and a request that fails is never
\* retried.
C12_EachPathRequestedAtMostOnce ==
    \A r \in DOMAIN gen :
        gen[r].class = Parser =>
            /\ NoneTwice(gen[r].self.requested)
            /\ \A i \in 1..Len(gen[r].self.requested) :
                  IsDocumentationPath(gen[r].self.requested[i])

\* C12's case: both loops are over, an entity file and a method file whose
\* requests failed are in the log with the files that were fetched
C12_Witness ==
    \E r \in DOMAIN gen :
        /\ gen[r].class = Parser
        /\ gen[r].pc = "endpoints"
        /\ \E i, j \in 1..Len(gen[r].self.requested) :
              /\ StartsWith(gen[r].self.requested[i], ENTITIES_PATH \o "/")
              /\ ~ApiGet(net, gen[r].self.requested[i]).ok
              /\ StartsWith(gen[r].self.requested[j], METHODS_PATH \o "/")
              /\ EndsWith(gen[r].self.requested[j], ".md")
              /\ ~ApiGet(net, gen[r].self.requested[j]).ok
        /\ Len(gen[r].self.entities.v) > 0
        /\ Len(gen[r].self.endpoints) > 0

\* C13: validate_openapi_spec prints the line OpenAPI specification is valid
\* if and only if it returns True: no call that prints the valid line goes on
\* to print a failure line and return False.
C13_ValidLineIffReturnsTrue ==
    \A i \in 1..Len(vcalls) :
        HasLine(vcalls[i], "OpenAPI specification is valid")
            <=> vcalls[i].exc = "" /\ vcalls[i].ret = TRUE

\* the values of the keys $ref anywhere in a value
RECURSIVE Refs(_)
Refs(x) ==
    CASE x.t = "dict" ->
            UNION {IF x.v[i].k = PyStr("$ref") THEN {x.v[i].v} ELSE Refs(x.v[i].v) :
                      i \in 1..Len(x.v)}
      [] x.t = "list" -> UNION {Refs(x.v[i]) : i \in 1..Len(x.v)}
      [] OTHER -> {}

RefPrefix == "#/components/schemas/"

\* a reference into components.schemas names one of its keys
Resolves(schemas, ref) ==
    ref.t = "str" /\ StartsWith(ref.v, RefPrefix)
        => HasKey(schemas, PyStr(SubSeq(ref.v, Len(RefPrefix) + 1, Len(ref.v))))

AllResolve(spec) == \A ref \in Refs(spec) : Resolves(SchemasOf(spec), ref)

\* C14: in the document the comprehensive generator produces, every $ref of
\* the form #/components/schemas/X (in property schemas, array items and
\* response contents) names a schema X that is a key of components.schemas.
C14_ComprehensiveRefsResolve ==
    \A r \in DOMAIN gen :
        gen[r].class = Comprehensive /\ HasDocument(r) => AllResolve(gen[r].spec)

\* C15: in the document the sample generator produces, every $ref of the form
\* #/components/schemas/X (in property schemas, array items and response
\* contents) names a schema X that is a key of components.schemas.
C15_SampleRefsResolve ==
    \A r \in DOMAIN gen :
        gen[r].class = Sample /\ HasDocument(r) => AllResolve(gen[r].spec)

\* C15's case: the document of the sample tables, with a reference in a
\* property schema, in the items of an array and in a response
C15_Witness ==
    \E r \in DOMAIN gen :
        /\ gen[r].class = Sample
        /\ HasDocument(r)
        /\ Len(gen[r].self.endpoints) = Len(SAMPLE_ENDPOINTS)
        /\ GetItem(GetItem(GetItem(SchemasOf(gen[r].spec), PyStr("Status")),
                           PyStr("properties")), PyStr("account"))
              = SchemaRef(PyStr("Account"))
        /\ PyStr(RefPrefix \o "CustomEmoji") \in Refs(SchemasOf(gen[r].spec))
        /\ PyStr(RefPrefix \o "Error") \in Refs(GetItem(gen[r].spec, PyStr("paths")))

\* the key of a path in the table: its last segment, {id} for one in braces
PathKey(path) ==
    LET last == Split(path, "/")[Len(Split(path, "/"))]
    IN  IF Contains(last, "{") THEN "{id}" ELSE last

\* the tag and the last path segment of the endpoint are an entry of the table
MatchesTable(endpoint) ==
    /\ HasKey(success_responses, endpoint.tags[1])
    /\ HasKey(GetItem(success_responses, endpoint.tags[1]), PyStr(PathKey(endpoint.path.v)))

TableSchema(endpoint) ==
    GetItem(GetItem(success_responses, endpoint.tags[1]), PyStr(PathKey(endpoint.path.v)))

\* the responses of the operation of an endpoint in a document
ResponsesOf(spec, endpoint) ==
    GetItem(GetItem(GetItem(GetItem(spec, PyStr("paths")), endpoint.path), endpoint.method),
            PyStr("responses"))

\* the 200 response has a content whose schema is a reference to the schema
References(responses, schema) ==
    /\ HasName(responses, "200")
    /\ HasName(GetItem(responses, PyStr("200")), "content")
    /\ Refs(GetItem(responses, PyStr("200"))) = {PyStr(RefPrefix \o schema.v)}

\* C16: in the comprehensive generator, for every endpoint whose tag and last
\* path segment (a trailing {...} segment counting as {id}) match an entry of
\* the success_responses table, the operation's 200 response references the
\* schema that entry names.
C16_TableEntryIsThe200Response ==
    \A r \in DOMAIN gen :
        gen[r].class = Comprehensive /\ HasDocument(r) =>
            \A i \in 1..Len(gen[r].self.endpoints) :
                MatchesTable(gen[r].self.endpoints[i]) =>
                    References(ResponsesOf(gen[r].spec, gen[r].self.endpoints[i]),
                               TableSchema(gen[r].self.endpoints[i]))

\* the operations of a document, each with its path and its method
OperationsOf(spec) ==
    UNION {{[path |-> GetItem(spec, PyStr("paths")).v[i].k.v,
             method |-> GetItem(spec, PyStr("paths")).v[i].v.v[j].k.v,
             op |-> GetItem(spec, PyStr("paths")).v[i].v.v[j].v] :
                j \in 1..Len(GetItem(spec, PyStr("paths")).v[i].v.v)} :
              i \in 1..Len(GetItem(spec, PyStr("paths")).v)}

\* security: [{BearerAuth: []}]
BearerAuthOnly == PyList(<<PyDict(<<Item(PyStr("BearerAuth"), PyList(<<>>))>>)>>)

\* the operation has the key security exactly when it is to, with that value
SecurityIff(op, secured) ==
    /\ HasName(op, "security") <=> secured
    /\ HasName(op, "security") => GetItem(op, PyStr("security")) = BearerAuthOnly

\* C17: in the comprehensive generator an operation carries security:
\* [{BearerAuth: []}] for every endpoint except public endpoints: the key is
\* absent exactly when the method is get and the path contains public or
\* instance, and present on every other operation.
C17_ComprehensiveSecurityExceptPublic ==
    \A r \in DOMAIN gen :
        gen[r].class = Comprehensive /\ HasDocument(r) =>
            \A o \in OperationsOf(gen[r].spec) :
                SecurityIff(o.op, ~ /\ o.method = "get"
                                    /\ \/ Contains(o.path, "public")
                                       \/ Contains(o.path, "instance"))

\* C17's case: the document of the comprehensive tables, where the public
\* timeline has no security and posting a status has
C17_Witness ==
    \E r \in DOMAIN gen :
        /\ gen[r].class = Comprehensive
        /\ HasDocument(r)
        /\ \E o, p \in OperationsOf(gen[r].spec) :
              /\ o.method = "get" /\ o.path = "/api/v1/timelines/public"
              /\ ~HasName(o.op, "security")
              /\ p.method = "post" /\ p.path = "/api/v1/statuses"
              /\ HasName(p.op, "security")

\* C18: in the sample generator an operation carries security:
\* [{BearerAuth: []}] exactly when (its path does not start with /oauth and
\* its method is not get) or its path contains timeline; every other
\* operation has no security key.
C18_SampleSecurityForAuthenticated ==
    \A r \in DOMAIN gen :
        gen[r].class = Sample /\ HasDocument(r) =>
            \A o \in OperationsOf(gen[r].spec) :
                SecurityIff(o.op, \/ ~StartsWith(o.path, "/oauth") /\ o.method # "get"
                                  \/ Contains(o.path, "timeline"))

\* C18's case: a get under /oauth whose path contains timeline has security
C18_Witness ==
    \E r \in DOMAIN gen :
        /\ gen[r].class = Sample
        /\ HasDocument(r)
        /\ \E o \in OperationsOf(gen[r].spec) :
              /\ o.method = "get" /\ o.path = "/oauth/timeline"
              /\ HasName(o.op, "security")

\* the names of the parameters of an operation with the given location
ParameterNames(op, location) ==
    IF HasName(op, "parameters")
    THEN {GetItem(GetItem(op, PyStr("parameters")).v[i], PyStr("name")).v :
            i \in {i \in 1..Len(GetItem(op, PyStr("parameters")).v) :
                      GetItem(GetItem(op, PyStr("parameters")).v[i], PyStr("in"))
                          = PyStr(location)}}
    ELSE {}

CommonQueryParameters == {"max_id", "since_id", "min_id", "limit"}

ListWords ==
    {"timeline", "notifications", "statuses", "followers", "following", "blocks",
     "mutes", "favourites", "bookmarks"}

\* C19: in the comprehensive generator the common query parameters max_id,
\* since_id, min_id and limit are added for list endpoints: an operation has
\* these four query parameters exactly when its method is GET and its path
\* contains one of timeline, notifications, statuses, followers, following,
\* blocks, mutes, favourites, bookmarks; no non-GET operation has them.
C19_ListEndpointsHavePagination ==
    \A r \in DOMAIN gen :
        gen[r].class = Comprehensive /\ HasDocument(r) =>
            \A o \in OperationsOf(gen[r].spec) :
                IF o.method = "get" /\ \E x \in ListWords : Contains(o.path, x)
                THEN CommonQueryParameters \subseteq ParameterNames(o.op, "query")
                ELSE CommonQueryParameters \cap ParameterNames(o.op, "query") = {}

\* C19's case: the document of the comprehensive tables, where the get of the
\* home timeline has the four parameters and the post of a status, whose path
\* contains statuses, has none of them
C19_Witness ==
    \E r \in DOMAIN gen :
        /\ gen[r].class = Comprehensive
        /\ HasDocument(r)
        /\ \E o, p \in OperationsOf(gen[r].spec) :
              /\ o.method = "get" /\ o.path = "/api/v1/timelines/home"
              /\ ParameterNames(o.op, "query") = CommonQueryParameters
              /\ p.method = "post" /\ p.path = "/api/v1/statuses"
              /\ ParameterNames(p.op, "query") # {}
              /\ CommonQueryParameters \cap ParameterNames(p.op, "query") = {}

\* the names between braces in a path
TemplateVariables(path) ==
    {SubSeq(path, i + 1, Find(path, "}", i) - 1) :
        i \in {i \in 1..Len(path) : CharAt(path, i) = "{" /\ Find(path, "}", i) > 0}}

\* every parameter of the operation with in: path has required: true
PathParametersRequired(op) ==
    HasName(op, "parameters") =>
        \A i \in 1..Len(GetItem(op, PyStr("parameters")).v) :
            GetItem(GetItem(op, PyStr("parameters")).v[i], PyStr("in")) = PyStr("path")
                => GetItem(GetItem(op, PyStr("parameters")).v[i], PyStr("required"))
                      = PyBool(TRUE)

\* C20: in the documents of the sample and comprehensive generators, for every
\* operation the set of {name} template variables of its path equals the set
\* of names of its parameters with in: path, each such parameter has
\* required: true, and no emitted path contains the colon form :id.
C20_PathVariablesAreThePathParameters ==
    \A r \in DOMAIN gen :
        gen[r].class \in {Sample, Comprehensive} /\ HasDocument(r) =>
            \A o \in OperationsOf(gen[r].spec) :
                /\ TemplateVariables(o.path) = ParameterNames(o.op, "path")
                /\ PathParametersRequired(o.op)
                /\ ~Contains(o.path, ":id")

\* C20's case: the documents of the tables: a sample path written with :id
\* has become {id} with its parameter, a comprehensive path has {hashtag}
C20_Witness ==
    \E r, q \in DOMAIN gen :
        /\ gen[r].class = Sample /\ HasDocument(r)
        /\ \E i \in 1..Len(gen[r].self.endpoints) :
              gen[r].self.endpoints[i].path = PyStr("/api/v1/statuses/:id")
        /\ \E o \in OperationsOf(gen[r].spec) :
              /\ o.path = "/api/v1/statuses/{id}"
              /\ ParameterNames(o.op, "path") = {"id"}
        /\ gen[q].class = Comprehensive /\ HasDocument(q)
        /\ \E o \in OperationsOf(gen[q].spec) :
              /\ o.path = "/api/v1/timelines/tag/{hashtag}"
              /\ ParameterNames(o.op, "path") = {"hashtag"}

\* the property of the entity that properties[name] was made from: the last
\* of that name
LastOfName(props, i) == \A j \in (i + 1)..Len(props) : props[j].name # props[i].name

\* the property schema of every property flagged nullable has nullable: true
NullableIsEmitted(schema, entity) ==
    \A i \in 1..Len(entity.properties) :
        Truthy(entity.properties[i].nullable) /\ LastOfName(entity.properties, i) =>
            LET prop_schema == GetItem(GetItem(schema, PyStr("properties")),
                                       entity.properties[i].name)
            IN  /\ HasName(prop_schema, "nullable")
                /\ GetItem(prop_schema, PyStr("nullable")) = PyBool(TRUE)

\* C21: in the sample and comprehensive generators, every property whose
\* record is flagged nullable is emitted with nullable: true in its property
\* schema, whatever its type.
C21_NullableFlagIsEmitted ==
    \A r \in DOMAIN gen :
        gen[r].class \in {Sample, Comprehensive} /\ HasDocument(r) =>
            /\ DictKeys(SchemasOf(gen[r].spec)) = DictKeys(gen[r].self.entities)
            /\ \A i \in 1..Len(gen[r].self.entities.v) :
                  NullableIsEmitted(SchemasOf(gen[r].spec).v[i].v,
                                    gen[r].self.entities.v[i].v)

\* a row of entities_data with True after its description, alone or after a
\* format string
CarriesTrue(prop_data) ==
    \/ Len(prop_data) > 3 /\ prop_data[4].t = "bool" /\ prop_data[4].v
    \/ /\ Len(prop_data) > 4
       /\ prop_data[4].t = "str"
       /\ prop_data[5].t = "bool"
       /\ prop_data[5].v

\* the property of a row is nullable and not required when the row carries
\* True, and its items_ref is None or a string
RowIsBuiltAsWritten(prop_data, prop) ==
    /\ prop.name = PyStr(prop_data[1])
    /\ CarriesTrue(prop_data) =>
          ~Truthy(prop.required) /\ prop.nullable.t = "bool" /\ prop.nullable.v
    /\ prop.items_ref.t \in {"none", "str"}

\* C22: in the comprehensive generator, every row of entities_data that
\* carries the boolean True after its description (alone, or after a format
\* string) yields a property that is nullable and not required, and every
\* property built from entities_data has items_ref equal to None or to a
\* schema name string.
C22_RowsWithTrueAreNullable ==
    \A r \in DOMAIN gen :
        gen[r].class = Comprehensive /\ gen[r].pc # "main" =>
            \A i \in 1..Len(entities_data) :
                /\ HasKey(gen[r].self.entities, PyStr(entities_data[i][1]))
                /\ LET props == GetItem(gen[r].self.entities,
                                        PyStr(entities_data[i][1])).properties
                       rows  == entities_data[i][3]
                   IN  /\ Len(props) = Len(rows)
                       /\ \A j \in 1..Len(rows) : RowIsBuiltAsWritten(rows[j], props[j])

====
